---- MODULE Spec2Model ----
(***************************************************************************)
(* The spatial simulation engine of aether: the entity store, the          *)
(* quadtree, the AOI manager, the movement validator and the tick of       *)
(* SpatialEngine.                                                          *)
(*                                                                         *)
(* Numbers.  Positions, velocities and deltas are float64 in the source;   *)
(* here they are integers on a unit grid.  Sums, differences, comparisons  *)
(* and squared lengths are exact on the grid.  The two places where the    *)
(* source multiplies by a non-integer (friction 0.95, the speed scale      *)
(* maxSpeed/distance) round toward zero to the grid.  Quadtree rectangles  *)
(* are kept in units of 1/QScale so that halving a rectangle is exact down *)
(* to the maximum depth, as it is for float64.                             *)
(***************************************************************************)
EXTENDS Integers, Sequences, FiniteSets, TLC

(* ------------------------------ bounds -------------------------------- *)

\* The world is the square [-WorldHalf, WorldHalf]^2 (config world_bounds).
WorldHalf == 5
\* AOI radius of the configuration (config aoi_radius).
AOIRadius == 4
\* Entities per quadtree node before it subdivides (config quadtree_capacity).
QuadtreeCapacity == 1
\* Maximum depth of the quadtree (config quadtree_depth).
QuadtreeDepth == 2
\* Number of entity ids the store hands out in a run.
MaxIds == 2
\* Largest client sequence number sent.
MaxSeq == 2
\* Number of movement intents that arrive in a run.
MaxIntents == 2
\* Number of ticks of a run.
MaxTicks == 3
\* the capacity of a session's outbound channel in a run (256 in the gateway)
QueueDepth == 2

(* ------------------------- program constants -------------------------- *)

MaxSpeed == 5
TeleportFactor == 3
\* config.Engine.MaxEntities, scaled down with the world
MaxEntities == 2
FrictionNum == 19
FrictionDen == 20
FirstEntityID == 1

MinX == -WorldHalf
MaxX == WorldHalf
MinY == -WorldHalf
MaxY == WorldHalf

NoClient == ""
Clients == {"c1", "c2"}
Ids == 1..MaxIds

(* ------------------------------ vectors ------------------------------- *)

Vec(x, y) == [X |-> x, Y |-> y]

Sq(a) == a * a

Abs(a) == IF a < 0 THEN -a ELSE a

\* a * n / d, rounded toward zero
MulDiv(a, n, d) == IF a >= 0 THEN (a * n) \div d ELSE -(((-a) * n) \div d)

\* floor of the square root
ISqrt(n) == CHOOSE r \in 0..n : Sq(r) <= n /\ Sq(r + 1) > n

Max2(a, b) == IF a > b THEN a ELSE b

Min2(a, b) == IF a < b THEN a ELSE b

\* Vector2.Length: the squared length
LengthSq(x, y) == Sq(x) + Sq(y)

\* Vector2.Distance: the squared distance
DistanceSq(p, q) == Sq(p.X - q.X) + Sq(p.Y - q.Y)

\* math.Sqrt(dx*dx + dy*dy) > limit, for a limit >= 0
LongerThan(dx, dy, limit) == LengthSq(dx, dy) > Sq(limit)

(* --------------------------- the variables ---------------------------- *)

VARIABLES
    entities,        \* EntityManager.entities: id -> Entity
    clientMap,       \* EntityManager.clientMap: client id -> entity id
    nextEntityID,    \* EntityManager.nextEntityID
    movementBuffer,  \* SpatialEngine.movementBuffer: id -> sequence of deltas
    quadtree,        \* SpatialEngine.quadtree: the root node
    subscribers,     \* AOIManager.subscribers: id -> set of ids
    currentTick,     \* TickManager.currentTick
    pc,              \* where processTick stands; "idle" when se.mu is free
    outbox,          \* the messages handed to queueBroadcast in this tick
    intentsSeen,     \* history: the number of calls of ProcessMovementIntent in the run
    arrivals,        \* history: the intents handed to ProcessMovementIntent since the last tick
    validation,      \* the last ValidationResult of AuthoritySystem.ValidateMovement
    aoiSeen,         \* history: the entities' positions when processAOIEvents last ran
    found,           \* history: the calls made on a component and what they returned
    registry,        \* Registry.entities of the game engine: id -> Entity
    gameQuadtree,    \* GameEngine.Quadtree: the root node
    hub,             \* Hub: clients, clientsByEntityID, nextEntityID
    wsClients,       \* the Clients the hub has seen: handle -> entityID and send channel
    gatewayClients,  \* WebSocketGateway.clients: client id -> Client with its sendChan
    pumps,           \* the goroutines and the connection of every client that has connected
    gateway,         \* WebSocketGateway: is g.shutdown closed, has the process panicked
    messagesRead,    \* history: the number of messages the readers have been given
    tickManager,     \* TickManager: its handlers, its signals and where Start stands
    handlerCalls,    \* history: the OnTick and OnShutdown calls made, in order
    main             \* where the goroutine of main of cmd/server stands

\* the sessions of the gateway
gatewayVars == <<gatewayClients, pumps, gateway, messagesRead>>

\* the sessions of the hub and of the gateway
hubVars == <<hub, wsClients, gatewayVars>>

\* the tick manager, the calls it has made and the goroutine that starts it
tickVars == <<tickManager, handlerCalls, main>>

\* the variables outside the spatial engine and its entity manager
extVars == <<found, registry, gameQuadtree, hubVars, tickVars>>

vars == <<entities, clientMap, nextEntityID, movementBuffer, quadtree,
          subscribers, currentTick, pc, outbox, intentsSeen, arrivals, validation, aoiSeen,
          extVars>>

(* ------------------------- maps (Go map idiom) ------------------------ *)

Has(m, k) == k \in DOMAIN m

Put(m, k, v) == [x \in DOMAIN m \cup {k} |-> IF x = k THEN v ELSE m[x]]

Delete(m, k) == [x \in DOMAIN m \ {k} |-> m[x]]

EmptyMap == [x \in {} |-> 0]

\* every order in which a range over a Go map can visit the keys S
Orders(S) == {s \in [1..Cardinality(S) -> S] : \A i, j \in 1..Cardinality(S) : i # j => s[i] # s[j]}

(* ---------------------------- configuration --------------------------- *)

isPositionValid(x, y) == x >= MinX /\ x <= MaxX /\ y >= MinY /\ y <= MaxY

(* ----------------------------- entity store --------------------------- *)

NewEntity(id, x, y, clientID) ==
    [ID |-> id, Position |-> Vec(x, y), Velocity |-> Vec(0, 0), ClientID |-> clientID,
     LastSequence |-> 0, PendingMoves |-> <<>>]

Delta(seq, dx, dy) == [Sequence |-> seq, DeltaX |-> dx, DeltaY |-> dy]

\* the positions the entity pointers held by the quadtree lead to
Positions(ents) == [i \in DOMAIN ents |-> ents[i].Position]

(* ------------------------------ quadtree ------------------------------ *)

\* 2^n
RECURSIVE Pow2(_)
Pow2(n) == IF n <= 0 THEN 1 ELSE 2 * Pow2(n - 1)

\* rectangle coordinates are stored multiplied by QScale
QScale == Pow2(QuadtreeDepth)

Rectangle(x, y, w, h) == [X |-> x, Y |-> y, Width |-> w, Height |-> h]

NewQuadtree(bounds, depth) ==
    [bounds |-> bounds, depth |-> depth, entities |-> <<>>, divided |-> FALSE, children |-> <<>>]

NewQuadtreeFromConfig ==
    NewQuadtree(Rectangle(MinX * QScale, MinY * QScale, (MaxX - MinX) * QScale, (MaxY - MinY) * QScale), 0)

\* Rectangle.Contains: half-open on the right and top edges
Contains(r, point) ==
    /\ point.X * QScale >= r.X
    /\ point.X * QScale < r.X + r.Width
    /\ point.Y * QScale >= r.Y
    /\ point.Y * QScale < r.Y + r.Height

\* Rectangle.IntersectsCircle: closest point of the rectangle to the centre
IntersectsCircle(r, center, radiusSq) ==
    LET cx == center.X * QScale
        cy == center.Y * QScale
        closestX == Max2(r.X, Min2(cx, r.X + r.Width))
        closestY == Max2(r.Y, Min2(cy, r.Y + r.Height))
    IN  Sq(cx - closestX) + Sq(cy - closestY) <= radiusSq * Sq(QScale)

RECURSIVE Insert(_, _, _)
RECURSIVE InsertIntoChildren(_, _, _, _)
RECURSIVE ReinsertAll(_, _, _)
RECURSIVE subdivide(_, _)

\* children[k].Insert(ent) || ... || children[4].Insert(ent)
InsertIntoChildren(qt, id, P, k) ==
    IF k > 4 THEN [ok |-> FALSE, qt |-> qt]
    ELSE LET r == Insert(qt.children[k], id, P)
             q == [qt EXCEPT !.children[k] = r.qt]
         IN  IF r.ok THEN [ok |-> TRUE, qt |-> q] ELSE InsertIntoChildren(q, id, P, k + 1)

\* the re-insert loop of subdivide; a failed insert is ignored
ReinsertAll(qt, ents, P) ==
    IF ents = <<>> THEN qt
    ELSE ReinsertAll(InsertIntoChildren(qt, Head(ents), P, 1).qt, Tail(ents), P)

\* Quadtree.subdivide; P gives each stored pointer's current position
subdivide(qt, P) ==
    LET x == qt.bounds.X
        y == qt.bounds.Y
        w == qt.bounds.Width \div 2
        h == qt.bounds.Height \div 2
        kids == << NewQuadtree(Rectangle(x, y, w, h), qt.depth + 1),
                   NewQuadtree(Rectangle(x + w, y, w, h), qt.depth + 1),
                   NewQuadtree(Rectangle(x, y + h, w, h), qt.depth + 1),
                   NewQuadtree(Rectangle(x + w, y + h, w, h), qt.depth + 1) >>
        q0 == [qt EXCEPT !.children = kids, !.divided = TRUE]
    IN  [ReinsertAll(q0, qt.entities, P) EXCEPT !.entities = <<>>]

\* Insert dividing a node one level below the maximum depth as well
InsertDeeper(qt, id, P) ==
    IF ~Contains(qt.bounds, P[id]) THEN [ok |-> FALSE, qt |-> qt]
    ELSE IF Len(qt.entities) < QuadtreeCapacity \/ qt.depth >= QuadtreeDepth + 1
         THEN [ok |-> TRUE, qt |-> [qt EXCEPT !.entities = Append(@, id)]]
         ELSE InsertIntoChildren(IF qt.divided THEN qt ELSE subdivide(qt, P), id, P, 1)

\* Quadtree.Insert; the result is the return value and the tree afterwards
Insert(qt, id, P) ==
    IF ~Contains(qt.bounds, P[id]) THEN [ok |-> FALSE, qt |-> qt]
    ELSE IF Len(qt.entities) < QuadtreeCapacity \/ qt.depth >= QuadtreeDepth
         THEN [ok |-> TRUE, qt |-> [qt EXCEPT !.entities = Append(@, id)]]
         ELSE InsertIntoChildren(IF qt.divided THEN qt ELSE subdivide(qt, P), id, P, 1)

\* s without its i-th element
RemoveAt(s, i) == SubSeq(s, 1, i - 1) \o SubSeq(s, i + 1, Len(s))

RECURSIVE removeInternal(_, _)
RECURSIVE RemoveFromChildren(_, _, _)

RemoveFromChildren(qt, id, k) ==
    IF k > 4 THEN [ok |-> FALSE, qt |-> qt]
    ELSE LET r == removeInternal(qt.children[k], id)
         IN  IF r.ok THEN [ok |-> TRUE, qt |-> [qt EXCEPT !.children[k] = r.qt]]
             ELSE RemoveFromChildren(qt, id, k + 1)

\* Quadtree.removeInternal: by id, this level first, then NW, NE, SW, SE
removeInternal(qt, id) ==
    IF \E i \in 1..Len(qt.entities) : qt.entities[i] = id
    THEN LET i == CHOOSE j \in 1..Len(qt.entities) :
                      qt.entities[j] = id /\ \A l \in 1..(j - 1) : qt.entities[l] # id
         IN  [ok |-> TRUE, qt |-> [qt EXCEPT !.entities = RemoveAt(@, i)]]
    ELSE IF qt.divided THEN RemoveFromChildren(qt, id, 1)
    ELSE [ok |-> FALSE, qt |-> qt]

\* Remove looking at the entities of the root only
RemoveAtRoot(qt, id) ==
    IF \E i \in 1..Len(qt.entities) : qt.entities[i] = id
    THEN removeInternal(qt, id)
    ELSE [ok |-> FALSE, qt |-> qt]

\* Quadtree.Remove
Remove(qt, id) == removeInternal(qt, id)

\* Quadtree.Update: remove, then insert at the entity's current position
Update(qt, id, P) == Insert(Remove(qt, id).qt, id, P)

RECURSIVE queryRadiusInternal(_, _, _, _)
RECURSIVE QueryChildren(_, _, _, _, _)

QueryChildren(qt, center, radiusSq, P, k) ==
    IF k > 4 THEN <<>>
    ELSE (IF IntersectsCircle(qt.children[k].bounds, center, radiusSq)
          THEN queryRadiusInternal(qt.children[k], center, radiusSq, P)
          ELSE <<>>) \o QueryChildren(qt, center, radiusSq, P, k + 1)

queryRadiusInternal(qt, center, radiusSq, P) ==
    SelectSeq(qt.entities, LAMBDA e : DistanceSq(P[e], center) <= radiusSq)
        \o (IF qt.divided THEN QueryChildren(qt, center, radiusSq, P, 1) ELSE <<>>)

\* Quadtree.QueryRadius: the ids found, in the order the tree is walked
QueryRadius(qt, center, radius, P) == queryRadiusInternal(qt, center, Sq(radius), P)

\* Rectangle.Intersects
Intersects(r, other) ==
    ~( \/ r.X >= other.X + other.Width
       \/ other.X >= r.X + r.Width
       \/ r.Y >= other.Y + other.Height
       \/ other.Y >= r.Y + r.Height )

RECURSIVE queryBoundsInternal(_, _, _)
RECURSIVE QueryBoundsChildren(_, _, _, _)

QueryBoundsChildren(qt, bounds, P, k) ==
    IF k > 4 THEN <<>>
    ELSE (IF Intersects(qt.children[k].bounds, bounds)
          THEN queryBoundsInternal(qt.children[k], bounds, P)
          ELSE <<>>) \o QueryBoundsChildren(qt, bounds, P, k + 1)

queryBoundsInternal(qt, bounds, P) ==
    SelectSeq(qt.entities, LAMBDA e : Contains(bounds, P[e]))
        \o (IF qt.divided THEN QueryBoundsChildren(qt, bounds, P, 1) ELSE <<>>)

\* Quadtree.QueryBounds: the ids found, in the order the tree is walked
QueryBounds(qt, bounds, P) == queryBoundsInternal(qt, bounds, P)

\* every id stored anywhere in the tree
RECURSIVE StoredIds(_)
StoredIds(qt) ==
    {qt.entities[i] : i \in 1..Len(qt.entities)}
        \cup (IF qt.divided THEN UNION {StoredIds(qt.children[k]) : k \in 1..4} ELSE {})

(* ----------------------------- AOI manager ---------------------------- *)

Range(s) == {s[i] : i \in 1..Len(s)}

\* the members of a set of ids in ascending order
RECURSIVE Ascending(_)
Ascending(S) ==
    IF S = {} THEN <<>>
    ELSE LET m == CHOOSE x \in S : \A y \in S : x <= y IN <<m>> \o Ascending(S \ {m})

AOIEvent(type, entityID, otherID) == [Type |-> type, EntityID |-> entityID, OtherID |-> otherID]

\* UpdateEntity that compares the neighbours with an empty memory
UpdateEntityNoMemory(subs, qt, entityID, position, P) ==
    LET nearby == QueryRadius(qt, position, AOIRadius, P)
        others == SelectSeq(nearby, LAMBDA n : n # entityID)
        newSubscribers == Range(others)
    IN  [events |-> [i \in 1..Len(others) |-> AOIEvent("enter", entityID, others[i])]
                      \o (IF newSubscribers # {} THEN <<AOIEvent("move", entityID, 0)>> ELSE <<>>),
         subscribers |-> Put(subs, entityID, newSubscribers)]

\* AOIManager.UpdateEntity: the events and the subscribers map afterwards.
\* The exit events are listed by ascending id; their order in the source is
\* the map's, and processAOIEvents treats every exit event alike.
UpdateEntity(subs, qt, entityID, position, P) ==
    LET nearby == QueryRadius(qt, position, AOIRadius, P)
        currentSubscribers == IF Has(subs, entityID) THEN subs[entityID] ELSE {}
        others == SelectSeq(nearby, LAMBDA n : n # entityID)
        newSubscribers == Range(others)
        entered == SelectSeq(others, LAMBDA n : n \notin currentSubscribers)
        exited == Ascending(currentSubscribers \ newSubscribers)
    IN  [events |-> [i \in 1..Len(entered) |-> AOIEvent("enter", entityID, entered[i])]
                      \o [i \in 1..Len(exited) |-> AOIEvent("exit", entityID, exited[i])]
                      \o (IF newSubscribers # {} THEN <<AOIEvent("move", entityID, 0)>> ELSE <<>>),
         subscribers |-> Put(subs, entityID, newSubscribers)]

\* AOIRemoveEntity forgetting the entity as an observer only
AOIRemoveObserverOnly(subs, entityID) == Delete(subs, entityID)

\* AOIManager.RemoveEntity
AOIRemoveEntity(subs, entityID) ==
    LET rest == Delete(subs, entityID)
    IN  [id \in DOMAIN rest |-> rest[id] \ {entityID}]

(* ------------------------- movement validator ------------------------- *)

\* the ValidationResult; NewDelta is <<>> for nil and <<d>> for a delta d
ValidationResult(valid, reason, modified, newDelta) ==
    [Valid |-> valid, Reason |-> reason, Modified |-> modified, NewDelta |-> newDelta]

\* MovementValidator.limitSpeed: the scale maxSpeed/distance, on the grid
limitSpeed(delta, maxSpeed) ==
    LET distance == ISqrt(LengthSq(delta.DeltaX, delta.DeltaY))
    IN  IF ~LongerThan(delta.DeltaX, delta.DeltaY, maxSpeed) THEN delta
        ELSE Delta(delta.Sequence, MulDiv(delta.DeltaX, maxSpeed, distance),
                   MulDiv(delta.DeltaY, maxSpeed, distance))

\* MovementValidator.isTeleportation
isTeleportation(ent, delta) == LongerThan(delta.DeltaX, delta.DeltaY, MaxSpeed * TeleportFactor)

\* MovementValidator.isInBounds
isInBounds(x, y) == x >= MinX /\ x <= MaxX /\ y >= MinY /\ y <= MaxY

\* math.Max(lo, math.Min(hi, v))
ClampCoord(v, lo, hi) == Max2(lo, Min2(hi, v))

\* clampToBounds with the Y coordinate left unclamped
clampToBoundsXOnly(ent, delta) ==
    LET newX == ent.Position.X + delta.DeltaX
        clampedX == ClampCoord(newX, MinX, MaxX)
    IN  Delta(delta.Sequence, clampedX - ent.Position.X, delta.DeltaY)

\* MovementValidator.clampToBounds
clampToBounds(ent, delta) ==
    LET newX == ent.Position.X + delta.DeltaX
        newY == ent.Position.Y + delta.DeltaY
        clampedX == ClampCoord(newX, MinX, MaxX)
        clampedY == ClampCoord(newY, MinY, MaxY)
    IN  Delta(delta.Sequence, clampedX - ent.Position.X, clampedY - ent.Position.Y)

\* MovementValidator.Validate (the speed history only feeds a log line)
Validate(ent, delta) ==
    IF delta.Sequence <= ent.LastSequence
    THEN ValidationResult(FALSE, "outdated sequence", FALSE, <<>>)
    ELSE IF LongerThan(delta.DeltaX, delta.DeltaY, MaxSpeed)
    THEN ValidationResult(FALSE, "exceeds max speed", TRUE, <<limitSpeed(delta, MaxSpeed)>>)
    ELSE IF isTeleportation(ent, delta)
    THEN ValidationResult(FALSE, "teleportation detected", FALSE, <<>>)
    ELSE IF ~isInBounds(ent.Position.X + delta.DeltaX, ent.Position.Y + delta.DeltaY)
    THEN ValidationResult(FALSE, "out of bounds", TRUE, <<clampToBounds(ent, delta)>>)
    ELSE ValidationResult(TRUE, "", FALSE, <<>>)

(* ------------------------------- engine ------------------------------- *)

\* validateMovement without the sequence check
validateMovementNoSequence(ents, entityID, delta) ==
    /\ Has(ents, entityID)
    /\ ~LongerThan(delta.DeltaX, delta.DeltaY, MaxSpeed)
    /\ isPositionValid(ents[entityID].Position.X + delta.DeltaX,
                       ents[entityID].Position.Y + delta.DeltaY)

\* validateMovement without the speed check
validateMovementNoSpeed(ents, entityID, delta) ==
    /\ Has(ents, entityID)
    /\ ~(delta.Sequence <= ents[entityID].LastSequence)
    /\ isPositionValid(ents[entityID].Position.X + delta.DeltaX,
                       ents[entityID].Position.Y + delta.DeltaY)

\* SpatialEngine.validateMovement
validateMovement(ents, entityID, delta) ==
    /\ Has(ents, entityID)
    /\ ~(delta.Sequence <= ents[entityID].LastSequence)
    /\ ~LongerThan(delta.DeltaX, delta.DeltaY, MaxSpeed)
    /\ isPositionValid(ents[entityID].Position.X + delta.DeltaX,
                       ents[entityID].Position.Y + delta.DeltaY)

\* a proto.Message handed to queueBroadcast for a client
Message(type, clientID, entityId, x, y, vx, vy, ack) ==
    [Type |-> type, ClientID |-> clientID, EntityId |-> entityId, X |-> x, Y |-> y,
     VelocityX |-> vx, VelocityY |-> vy, AckSequence |-> ack]

\* SpatialEngine.generateCorrection: the message for the entity as it is now
Correction(ent) ==
    Message("CORRECTION", ent.ClientID, ent.ID, ent.Position.X, ent.Position.Y,
            ent.Velocity.X, ent.Velocity.Y, ent.LastSequence)

\* ApplyDelta without the comparison with LastSequence
ApplyDeltaNoSequenceCheck(ent, delta) ==
    IF isPositionValid(ent.Position.X + delta.DeltaX, ent.Position.Y + delta.DeltaY)
    THEN [ent |-> [ent EXCEPT !.Velocity = Vec(delta.DeltaX, delta.DeltaY),
                              !.LastSequence = delta.Sequence],
          correction |-> FALSE]
    ELSE [ent |-> ent, correction |-> TRUE]

\* the body of the delta loop of processMovementDeltas, for one delta
ApplyDelta(ent, delta) ==
    IF delta.Sequence > ent.LastSequence
    THEN IF isPositionValid(ent.Position.X + delta.DeltaX, ent.Position.Y + delta.DeltaY)
         THEN [ent |-> [ent EXCEPT !.Velocity = Vec(delta.DeltaX, delta.DeltaY),
                                   !.LastSequence = delta.Sequence],
               correction |-> FALSE]
         ELSE [ent |-> ent, correction |-> TRUE]
    ELSE [ent |-> ent, correction |-> FALSE]

\* the delta loop of processMovementDeltas for one entity, in buffer order
RECURSIVE ApplyDeltas(_, _, _)
ApplyDeltas(ent, deltas, out) ==
    IF deltas = <<>> THEN [ent |-> ent, out |-> out]
    ELSE LET r == ApplyDelta(ent, Head(deltas))
         IN  ApplyDeltas(r.ent, Tail(deltas),
                         IF r.correction THEN Append(out, Correction(r.ent)) ELSE out)

\* processMovementDeltas without the delete that follows the delta loop
RECURSIVE processMovementDeltasKeepBuffer(_, _, _, _)
processMovementDeltasKeepBuffer(ents, buffer, order, out) ==
    IF order = <<>> THEN [entities |-> ents, buffer |-> buffer, out |-> out]
    ELSE LET id == Head(order)
         IN  IF ~Has(ents, id)
             THEN processMovementDeltasKeepBuffer(ents, Delete(buffer, id), Tail(order), out)
             ELSE LET r == ApplyDeltas(ents[id], buffer[id], out)
                  IN  processMovementDeltasKeepBuffer([ents EXCEPT ![id] = r.ent], buffer,
                                                      Tail(order), r.out)

\* SpatialEngine.processMovementDeltas over the buffered ids in the given
\* order; every id it visits is deleted from the buffer
RECURSIVE processMovementDeltas(_, _, _, _)
processMovementDeltas(ents, buffer, order, out) ==
    IF order = <<>> THEN [entities |-> ents, buffer |-> buffer, out |-> out]
    ELSE LET id == Head(order)
         IN  IF ~Has(ents, id)
             THEN processMovementDeltas(ents, Delete(buffer, id), Tail(order), out)
             ELSE LET r == ApplyDeltas(ents[id], buffer[id], out)
                  IN  processMovementDeltas([ents EXCEPT ![id] = r.ent], Delete(buffer, id),
                                            Tail(order), r.out)

\* ent.Velocity *= 0.95, per component
Friction(v) == MulDiv(v, FrictionNum, FrictionDen)

\* IntegrateEntity with the new position taken unclamped
IntegrateEntityNoClamp(ent) ==
    LET newX == ent.Position.X + ent.Velocity.X
        newY == ent.Position.Y + ent.Velocity.Y
    IN  IF isPositionValid(newX, newY)
        THEN [ent |-> [ent EXCEPT !.Position = Vec(newX, newY),
                                  !.Velocity = Vec(Friction(ent.Velocity.X), Friction(ent.Velocity.Y))],
              valid |-> TRUE]
        ELSE [ent |-> [ent EXCEPT !.Position = Vec(newX, newY), !.Velocity = Vec(0, 0)],
              valid |-> FALSE]

\* IntegrateEntity with the velocity left as it is after friction when clamping
IntegrateEntityKeepVelocity(ent) ==
    LET newX == ent.Position.X + ent.Velocity.X
        newY == ent.Position.Y + ent.Velocity.Y
        vx == Friction(ent.Velocity.X)
        vy == Friction(ent.Velocity.Y)
    IN  IF isPositionValid(newX, newY)
        THEN [ent |-> [ent EXCEPT !.Position = Vec(newX, newY), !.Velocity = Vec(vx, vy)],
              valid |-> TRUE]
        ELSE [ent |-> [ent EXCEPT !.Position = Vec(ClampCoord(newX, MinX, MaxX),
                                                   ClampCoord(newY, MinY, MaxY)),
                                  !.Velocity = Vec(vx, vy)],
              valid |-> FALSE]

\* the body of the loop of updateEntityPositions, for one entity
IntegrateEntity(ent) ==
    LET newX == ent.Position.X + ent.Velocity.X
        newY == ent.Position.Y + ent.Velocity.Y
        vx == Friction(ent.Velocity.X)
        vy == Friction(ent.Velocity.Y)
    IN  IF isPositionValid(newX, newY)
        THEN [ent |-> [ent EXCEPT !.Position = Vec(newX, newY), !.Velocity = Vec(vx, vy)],
              valid |-> TRUE]
        ELSE [ent |-> [ent EXCEPT !.Position = Vec(ClampCoord(newX, MinX, MaxX),
                                                   ClampCoord(newY, MinY, MaxY)),
                                  !.Velocity = Vec(0, 0)],
              valid |-> FALSE]

\* SpatialEngine.updateEntityPositions over the entities in the given order
RECURSIVE updateEntityPositions(_, _, _, _)
updateEntityPositions(ents, qt, order, out) ==
    IF order = <<>> THEN [entities |-> ents, quadtree |-> qt, out |-> out]
    ELSE LET id == Head(order)
             r == IntegrateEntity(ents[id])
             moved == [ents EXCEPT ![id] = r.ent]
         IN  IF r.valid
             THEN updateEntityPositions(moved, Update(qt, id, Positions(moved)).qt, Tail(order), out)
             ELSE updateEntityPositions(moved, qt, Tail(order), Append(out, Correction(r.ent)))

\* the ids of a query result other than entityID, as the broadcast loops visit them
Recipients(ents, qt, entityID, position) ==
    SelectSeq(QueryRadius(qt, position, AOIRadius, Positions(ents)), LAMBDA n : n # entityID)

\* SpatialEngine.broadcastToNearby
broadcastToNearby(ents, qt, entityID, position) ==
    IF ~Has(ents, entityID) THEN <<>>
    ELSE LET ent == ents[entityID]
             to == Recipients(ents, qt, entityID, position)
         IN  [i \in 1..Len(to) |->
                 Message("ENTITY_STATE", ents[to[i]].ClientID, ent.ID, ent.Position.X, ent.Position.Y,
                         ent.Velocity.X, ent.Velocity.Y, 0)]

\* SpatialEngine.broadcastDespawnToNearby (reason "out_of_aoi")
broadcastDespawnToNearby(ents, qt, entityID, position) ==
    LET to == Recipients(ents, qt, entityID, position)
    IN  [i \in 1..Len(to) |-> Message("DESPAWN", ents[to[i]].ClientID, entityID, 0, 0, 0, 0, 0)]

\* the switch of processAOIEvents over the events of one entity
RECURSIVE EventMessages(_, _, _, _)
EventMessages(ents, qt, ent, events) ==
    IF events = <<>> THEN <<>>
    ELSE (IF Head(events).Type \in {"enter", "move"}
          THEN broadcastToNearby(ents, qt, ent.ID, ent.Position)
          ELSE broadcastDespawnToNearby(ents, qt, ent.ID, ent.Position))
         \o EventMessages(ents, qt, ent, Tail(events))

\* SpatialEngine.processAOIEvents over the entities in the given order
RECURSIVE processAOIEvents(_, _, _, _, _)
processAOIEvents(ents, qt, subs, order, out) ==
    IF order = <<>> THEN [subscribers |-> subs, out |-> out]
    ELSE LET ent == ents[Head(order)]
             u == UpdateEntity(subs, qt, ent.ID, ent.Position, Positions(ents))
         IN  processAOIEvents(ents, qt, u.subscribers, Tail(order),
                              out \o EventMessages(ents, qt, ent, u.events))

(* ------------------------- entity manager calls ----------------------- *)

\* the three fields of the EntityManager as one value
Store(ents, cmap, next) == [entities |-> ents, clientMap |-> cmap, nextEntityID |-> next]

\* A uint32 is held as the integer with the same 32 bits in two's complement:
\* 0 .. 2^31 - 1 are themselves, 2^31 .. 2^32 - 1 are -2^31 .. -1.
\* v + 1 on a uint32: 2^32 - 1 (held as -1) is followed by 0
IncUint32(v) == IF v = 2147483647 THEN -2147483647 - 1 ELSE v + 1

\* a < b on two uint32
LessUint32(a, b) == IF (a >= 0) = (b >= 0) THEN a < b ELSE a >= 0

\* EntityManager.CreateEntity: the new entity takes the id em.nextEntityID
\* and the counter is incremented
CreateEntity(em, x, y, clientID) ==
    Store(Put(em.entities, em.nextEntityID, NewEntity(em.nextEntityID, x, y, clientID)),
          IF clientID # NoClient THEN Put(em.clientMap, clientID, em.nextEntityID) ELSE em.clientMap,
          IncUint32(em.nextEntityID))

\* EntityManager.RemoveEntity
StoreRemoveEntity(em, id) ==
    IF ~Has(em.entities, id) THEN em
    ELSE Store(Delete(em.entities, id),
               IF em.entities[id].ClientID # NoClient
               THEN Delete(em.clientMap, em.entities[id].ClientID) ELSE em.clientMap,
               em.nextEntityID)

\* EntityManager.AddPendingMove
StoreAddPendingMove(ent, delta) ==
    IF delta.Sequence > ent.LastSequence
    THEN [ent EXCEPT !.PendingMoves = Append(@, delta)]
    ELSE ent

\* EntityManager.ClearPendingMoves
StoreClearPendingMoves(ent, upToSequence) ==
    [ent EXCEPT !.PendingMoves = SelectSeq(@, LAMBDA move : move.Sequence > upToSequence),
                !.LastSequence = upToSequence]

(* ------------------- the game engine's quadtree ------------------------ *)

\* boundary coordinates are stored multiplied by GameScale
GameScale == Pow2(MaxIds)

\* engine.Entity of the game engine
GameEntity(id, x, y) == [ID |-> id, Position |-> Vec(x, y), Velocity |-> Vec(0, 0)]

NewAABB(centerX, centerY, halfDim) == [CenterX |-> centerX, CenterY |-> centerY, HalfDim |-> halfDim]

\* AABB.ContainsPoint: closed on every edge
ContainsPoint(aabb, point) ==
    /\ point.X * GameScale >= aabb.CenterX - aabb.HalfDim
    /\ point.X * GameScale <= aabb.CenterX + aabb.HalfDim
    /\ point.Y * GameScale >= aabb.CenterY - aabb.HalfDim
    /\ point.Y * GameScale <= aabb.CenterY + aabb.HalfDim

Circle(centerX, centerY, radius) == [CenterX |-> centerX, CenterY |-> centerY, Radius |-> radius]

\* Circle.ContainsPoint
CircleContainsPoint(c, point) ==
    Sq(point.X - c.CenterX) + Sq(point.Y - c.CenterY) <= Sq(c.Radius)

\* Circle.IntersectsAABB: the closest point of the box, compared with <
CircleIntersectsAABB(c, aabb) ==
    LET cx == c.CenterX * GameScale
        cy == c.CenterY * GameScale
        closestX == ClampCoord(cx, aabb.CenterX - aabb.HalfDim, aabb.CenterX + aabb.HalfDim)
        closestY == ClampCoord(cy, aabb.CenterY - aabb.HalfDim, aabb.CenterY + aabb.HalfDim)
    IN  Sq(cx - closestX) + Sq(cy - closestY) < Sq(c.Radius * GameScale)

\* engine.NewQuadtree; children are northWest, northEast, southWest, southEast
GameNewQuadtree(boundary) ==
    [boundary |-> boundary, entities |-> <<>>, divided |-> FALSE, children |-> <<>>]

\* Quadtree.subdivide of the game engine
GameSubdivide(qt) ==
    LET centerX == qt.boundary.CenterX
        centerY == qt.boundary.CenterY
        halfDim == qt.boundary.HalfDim \div 2
    IN  [qt EXCEPT !.children = << GameNewQuadtree(NewAABB(centerX - halfDim, centerY + halfDim, halfDim)),
                                   GameNewQuadtree(NewAABB(centerX + halfDim, centerY + halfDim, halfDim)),
                                   GameNewQuadtree(NewAABB(centerX - halfDim, centerY - halfDim, halfDim)),
                                   GameNewQuadtree(NewAABB(centerX + halfDim, centerY - halfDim, halfDim)) >>,
                   !.divided = TRUE]

RECURSIVE GameInsert(_, _, _)
RECURSIVE GameInsertIntoChildren(_, _, _, _)

\* the four attempts of Insert, north-west first
GameInsertIntoChildren(qt, id, P, k) ==
    IF k > 4 THEN [ok |-> FALSE, qt |-> qt]
    ELSE LET r == GameInsert(qt.children[k], id, P)
         IN  IF r.ok THEN [ok |-> TRUE, qt |-> [qt EXCEPT !.children[k] = r.qt]]
             ELSE GameInsertIntoChildren(qt, id, P, k + 1)

\* Quadtree.Insert of the game engine
GameInsert(qt, id, P) ==
    IF ~ContainsPoint(qt.boundary, P[id]) THEN [ok |-> FALSE, qt |-> qt]
    ELSE IF Len(qt.entities) < QuadtreeCapacity
         THEN [ok |-> TRUE, qt |-> [qt EXCEPT !.entities = Append(@, id)]]
         ELSE LET q == IF qt.divided THEN qt ELSE GameSubdivide(qt)
                  r == GameInsertIntoChildren(q, id, P, 1)
              IN  IF r.ok THEN r
                  ELSE [ok |-> TRUE, qt |-> [q EXCEPT !.entities = Append(@, id)]]

RECURSIVE QueryCircle(_, _, _)
RECURSIVE QueryCircleChildren(_, _, _, _)

QueryCircleChildren(qt, queryRange, P, k) ==
    IF k > 4 THEN <<>>
    ELSE QueryCircle(qt.children[k], queryRange, P) \o QueryCircleChildren(qt, queryRange, P, k + 1)

\* Quadtree.QueryCircle: the ids found, in the order the tree is walked
QueryCircle(qt, queryRange, P) ==
    IF ~CircleIntersectsAABB(queryRange, qt.boundary) THEN <<>>
    ELSE SelectSeq(qt.entities, LAMBDA e : CircleContainsPoint(queryRange, P[e]))
            \o (IF qt.divided THEN QueryCircleChildren(qt, queryRange, P, 1) ELSE <<>>)

(* ------------------------ sessions and their queues ------------------- *)

\* make(chan []byte, n): the buffered messages, oldest first, and whether close was called
NewChannel == [queue |-> <<>>, closed |-> FALSE]

\* select { case ch <- message: default: }: the message is buffered when there is room
TrySend(ch, message) ==
    IF Len(ch.queue) < QueueDepth THEN [ch EXCEPT !.queue = Append(@, message)] ELSE ch

\* websocket.NewHub
NewHub == [clients |-> {}, clientsByEntityID |-> EmptyMap, nextEntityID |-> 0]

\* Hub.BroadcastTo: the clients after the send to the client of entityID, if any
BroadcastTo(h, clients, entityID, payload) ==
    IF Has(h.clientsByEntityID, entityID)
    THEN [clients EXCEPT ![h.clientsByEntityID[entityID]].send = TrySend(@, payload)]
    ELSE clients

\* the registered clients whose send channel has no room
FullClients(h, clients) == {c \in h.clients : Len(clients[c].send.queue) >= QueueDepth}

\* WebSocketGateway.BroadcastToClient: the gateway's clients after the send
BroadcastToClient(gw, clientID, data) ==
    IF Has(gw, clientID)
    THEN [gw EXCEPT ![clientID].sendChan = TrySend(@, data)]
    ELSE gw

\* config: PongWait, the time a connection may stay silent, in steps of the clock
PongWait == 2

\* NewWebSocketGateway: g.shutdown is open; panicked is set when a goroutine of
\* the process panics, which ends the process
NewWebSocketGateway == [shutdown |-> FALSE, panicked |-> FALSE]

\* handleWebSocket: the Client of a new connection
NewClient(clientID) ==
    [id |-> clientID, sendChan |-> NewChannel, entityID |-> 0, lastSeq |-> 0]

\* handleWebSocket: the two goroutines of a new connection; closed says that
\* Client.Close has closed closeChan, the connection and sendChan; deadline is
\* the time left until the read deadline
NewPumps == [readPump |-> "running", writePump |-> "running", closed |-> FALSE,
             deadline |-> PongWait]

\* handleSpawnRequest: a client that has an entity is refused
MaySpawn(client) == client.entityID = 0

\* sendSpawnResponse: the encoded SpawnResponse
SpawnResponse(success) == IF success THEN "SpawnResponse ok" ELSE "SpawnResponse failed"

AfterMessageStrict(kind) ==
    IF kind \in {"garbage", "invalid"} THEN "returning" ELSE "running"

\* readPump: where the reader stands after a message it has read: at the top
\* of its loop, whatever the message was
AfterMessage(kind) == "running"

\* Client.Close: closeChan, the connection and sendChan are closed; closing
\* closeChan a second time panics before anything else is done
ClientClose(clients, ps, clientID) ==
    IF ps[clientID].closed
    THEN [panic |-> TRUE, clients |-> clients, pumps |-> ps]
    ELSE [panic |-> FALSE,
          clients |-> IF Has(clients, clientID)
                      THEN [clients EXCEPT ![clientID].sendChan.closed = TRUE]
                      ELSE clients,
          pumps |-> [ps EXCEPT ![clientID].closed = TRUE]]

RECURSIVE CloseEach(_, _, _)
\* WebSocketGateway.Shutdown: the Range over g.clients closes one client after
\* the other and stops at the first panic
CloseEach(clients, ps, order) ==
    IF order = <<>>
    THEN [panic |-> FALSE, clients |-> clients, pumps |-> ps]
    ELSE LET c == ClientClose(clients, ps, Head(order))
         IN  IF c.panic THEN c ELSE CloseEach(c.clients, c.pumps, Tail(order))

(* ------------------------------ tick manager -------------------------- *)

\* tick.NewTickManager. state is where Start stands: "new" before it is
\* called, "select" at the select of its loop, "tick" inside processTick,
\* "shutdown" inside shutdownHandlers, "returned" after its return;
\* copied is the copy of tickHandlers being walked and next the index in it
NewTickManager ==
    [tickHandlers |-> <<>>, ctxDone |-> FALSE, shutdown |-> FALSE, state |-> "new",
     copied |-> <<>>, next |-> 1, signalledIn |-> "none"]

\* the loop of Start without its returns: it selects again after every case
AfterCaseSelectAgain(case) == "select"

\* where Start goes when the body of a case of its select is done
AfterCase(case) == IF case = "tick" THEN "select" ELSE "returned"

\* the cases of the select of Start that are ready
ReadyCases(tm, tickerFired) ==
    (IF tm.ctxDone THEN {"ctx"} ELSE {})
        \cup (IF tm.shutdown THEN {"shutdown"} ELSE {})
        \cup (IF tickerFired THEN {"tick"} ELSE {})

\* processTick or shutdownHandlers begins: the handlers are copied under tm.mu;
\* with no handler the loop is over at once
BeginHandlers(tm, case) ==
    LET walk == IF case = "tick" THEN "tick" ELSE "shutdown"
    IN  IF tm.tickHandlers = <<>>
        THEN [tm EXCEPT !.state = AfterCase(walk), !.copied = <<>>, !.next = 1]
        ELSE [tm EXCEPT !.state = walk, !.copied = tm.tickHandlers, !.next = 1]

\* the handler loop moves past one handler
NextHandler(tm) ==
    IF tm.next < Len(tm.copied) THEN [tm EXCEPT !.next = @ + 1]
    ELSE [tm EXCEPT !.state = AfterCase(tm.state), !.copied = <<>>, !.next = 1]

\* SpatialEngine.SpawnEntity: the store and the index it leaves, and the id it
\* returns, which is 0 when the spawn failed
SpawnEntityResult(em, qt, x, y, clientID) ==
    IF ~isPositionValid(x, y)
    THEN [em |-> em, qt |-> qt, id |-> 0]
    ELSE LET entityID == em.nextEntityID
             created == CreateEntity(em, x, y, clientID)
             ins == Insert(qt, entityID, Positions(created.entities))
         IN  IF ins.ok
             THEN [em |-> created, qt |-> ins.qt, id |-> entityID]
             ELSE [em |-> StoreRemoveEntity(created, entityID), qt |-> ins.qt, id |-> 0]

\* SpatialEngine.RemoveEntity: what it returns and what is left of the store,
\* the index, the AOI subscribers and the movement buffer
RemoveEntityResult(em, qt, subs, buffer, entityID) ==
    IF ~Has(em.entities, entityID)
    THEN [ok |-> FALSE, em |-> em, qt |-> qt, subs |-> subs, buffer |-> buffer]
    ELSE [ok |-> TRUE,
          em |-> StoreRemoveEntity(em, entityID),
          qt |-> Remove(qt, entityID).qt,
          subs |-> AOIRemoveEntity(subs, entityID),
          buffer |-> Delete(buffer, entityID)]

\* SpatialEngine.ProcessMovementIntent: a valid intent is appended to the
\* entity's list in the movement buffer
BufferIntent(buffer, ents, entityID, delta) ==
    IF validateMovement(ents, entityID, delta)
    THEN Put(buffer, entityID,
             Append(IF Has(buffer, entityID) THEN buffer[entityID] ELSE <<>>, delta))
    ELSE buffer

(* ------------------------------- inputs ------------------------------- *)

\* spawn coordinates: on the left edge, in the middle, on the right edge, outside
SpawnPoints ==
    {<<MinX, 0>>, <<0, 0>>, <<MaxX, 0>>, <<MaxX + 1, 0>>}

\* the deltas clients send to the engine: of length maxSpeed and of twice
\* that, the latter leading from the right edge to a point inside
DeltaVectors == {<<5, 0>>, <<-10, 0>>}

Intents == {Delta(s, d[1], d[2]) : s \in 1..MaxSeq, d \in DeltaVectors}

(* ------------------------------- actions ------------------------------ *)

\* the variables outside the engine, before anything has been called
InitExt ==
    /\ found = <<>>
    /\ registry = EmptyMap
    /\ gameQuadtree = GameNewQuadtree(NewAABB(0, 0, WorldHalf * GameScale))
    /\ hub = NewHub
    /\ wsClients = EmptyMap
    /\ gatewayClients = EmptyMap
    /\ pumps = EmptyMap
    /\ gateway = NewWebSocketGateway
    /\ messagesRead = 0
    /\ tickManager = NewTickManager
    /\ handlerCalls = <<>>
    /\ main = "main"

Init ==
    /\ entities = EmptyMap
    /\ clientMap = EmptyMap
    /\ nextEntityID = FirstEntityID
    /\ movementBuffer = EmptyMap
    /\ quadtree = NewQuadtreeFromConfig
    /\ subscribers = EmptyMap
    /\ currentTick = 0
    /\ pc = "idle"
    /\ outbox = <<>>
    /\ intentsSeen = 0
    /\ arrivals = <<>>
    /\ validation = <<>>
    /\ aoiSeen = EmptyMap
    /\ InitExt

\* SpatialEngine.SpawnEntity; it does not take se.mu
SpawnEntity(x, y, clientID) ==
    /\ nextEntityID <= MaxIds
    /\ LET r == SpawnEntityResult(Store(entities, clientMap, nextEntityID), quadtree,
                                  x, y, clientID)
       IN  /\ entities' = r.em.entities
           /\ clientMap' = r.em.clientMap
           /\ nextEntityID' = r.em.nextEntityID
           /\ quadtree' = r.qt
    /\ UNCHANGED <<movementBuffer, subscribers, currentTick, pc, outbox, arrivals, validation,
                   intentsSeen,
                   extVars, aoiSeen>>

\* SpatialEngine.RemoveEntity, under se.mu
RemoveEntity(entityID) ==
    /\ pc = "idle"
    /\ LET r == RemoveEntityResult(Store(entities, clientMap, nextEntityID), quadtree,
                                   subscribers, movementBuffer, entityID)
       IN  /\ quadtree' = r.qt
           /\ entities' = r.em.entities
           /\ clientMap' = r.em.clientMap
           /\ subscribers' = r.subs
           /\ movementBuffer' = r.buffer
    /\ UNCHANGED <<nextEntityID, currentTick, pc, outbox, arrivals, validation, intentsSeen,
                   extVars, aoiSeen>>

\* what ProcessMovementIntent saw of the intent, for the history
Arrival(entityID, delta) ==
    [EntityId |-> entityID, Sequence |-> delta.Sequence,
     DeltaX |-> delta.DeltaX, DeltaY |-> delta.DeltaY,
     known |-> Has(entities, entityID),
     fresh |-> Has(entities, entityID) /\ delta.Sequence > entities[entityID].LastSequence,
     inBounds |-> Has(entities, entityID)
                    /\ isPositionValid(entities[entityID].Position.X + delta.DeltaX,
                                       entities[entityID].Position.Y + delta.DeltaY),
     buffered |-> validateMovement(entities, entityID, delta)]

\* SpatialEngine.ProcessMovementIntent, under se.mu
ProcessMovementIntent(entityID, delta) ==
    /\ pc = "idle"
    /\ intentsSeen < MaxIntents
    /\ intentsSeen' = intentsSeen + 1
    /\ movementBuffer' = BufferIntent(movementBuffer, entities, entityID, delta)
    /\ arrivals' = Append(arrivals, Arrival(entityID, delta))
    /\ UNCHANGED <<entities, clientMap, nextEntityID, quadtree, subscribers, currentTick, pc,
                   outbox, validation,
                   extVars, aoiSeen>>

\* TickManager.processTick up to the lock of SpatialEngine.processTick
TickStart ==
    /\ pc = "idle"
    /\ currentTick < MaxTicks
    /\ currentTick' = currentTick + 1
    /\ pc' = "deltas"
    /\ UNCHANGED <<entities, clientMap, nextEntityID, movementBuffer, quadtree, subscribers,
                   outbox, arrivals, validation, intentsSeen,
                   extVars, aoiSeen>>

\* processTick: se.processMovementDeltas()
TickMovementDeltas ==
    /\ pc = "deltas"
    /\ \E order \in Orders(DOMAIN movementBuffer) :
          LET r == processMovementDeltas(entities, movementBuffer, order, outbox)
          IN  /\ entities' = r.entities
              /\ movementBuffer' = r.buffer
              /\ outbox' = r.out
    /\ pc' = "positions"
    /\ UNCHANGED <<clientMap, nextEntityID, quadtree, subscribers, currentTick, arrivals, validation,
                   intentsSeen,
                   extVars, aoiSeen>>

\* processTick: se.updateEntityPositions()
TickEntityPositions ==
    /\ pc = "positions"
    /\ \E order \in Orders(DOMAIN entities) :
          LET r == updateEntityPositions(entities, quadtree, order, outbox)
          IN  /\ entities' = r.entities
              /\ quadtree' = r.quadtree
              /\ outbox' = r.out
    /\ pc' = "index"
    /\ UNCHANGED <<clientMap, nextEntityID, movementBuffer, subscribers, currentTick, arrivals,
                   validation, intentsSeen,
                   extVars, aoiSeen>>

\* processTick: se.updateSpatialIndex(), which does nothing
TickSpatialIndex ==
    /\ pc = "index"
    /\ pc' = "aoi"
    /\ UNCHANGED <<entities, clientMap, nextEntityID, movementBuffer, quadtree, subscribers,
                   currentTick, outbox, arrivals, validation, intentsSeen,
                   extVars, aoiSeen>>

\* processTick: se.processAOIEvents()
TickAOIEvents ==
    /\ pc = "aoi"
    /\ \E order \in Orders(DOMAIN entities) :
          LET r == processAOIEvents(entities, quadtree, subscribers, order, outbox)
          IN  /\ subscribers' = r.subscribers
              /\ outbox' = r.out
    /\ aoiSeen' = Positions(entities)
    /\ pc' = "end"
    /\ UNCHANGED <<entities, clientMap, nextEntityID, movementBuffer, quadtree, currentTick,
                   arrivals, validation, intentsSeen,
                   extVars>>

\* processTick returns and releases se.mu; the histories of the tick end
TickEnd ==
    /\ pc = "end"
    /\ pc' = "idle"
    /\ outbox' = <<>>
    /\ arrivals' = <<>>
    /\ UNCHANGED <<entities, clientMap, nextEntityID, movementBuffer, quadtree, subscribers,
                   currentTick, validation, intentsSeen,
                   extVars, aoiSeen>>

\* Client ids are interchangeable names: the first spawn of a run is c1's.
Spawn ==
    \E p \in SpawnPoints, c \in Clients :
        /\ c = "c1" \/ nextEntityID > FirstEntityID
        /\ SpawnEntity(p[1], p[2], c)

Despawn == \E id \in Ids : RemoveEntity(id)

Intent == \E id \in DOMAIN entities, d \in Intents : ProcessMovementIntent(id, d)

Next ==
    \/ Spawn
    \/ Despawn
    \/ Intent
    \/ TickStart
    \/ TickMovementDeltas
    \/ TickEntityPositions
    \/ TickSpatialIndex
    \/ TickAOIEvents
    \/ TickEnd

Spec == Init /\ [][Next]_vars

(* ---------------- the entity manager's own entry points --------------- *)

\* EntityManager.AddPendingMove, under em.mu
AddPendingMove(id, delta) ==
    /\ Has(entities, id)
    /\ Len(entities[id].PendingMoves) < MaxIntents
    /\ entities' = [entities EXCEPT ![id] = StoreAddPendingMove(@, delta)]
    /\ UNCHANGED <<clientMap, nextEntityID, movementBuffer, quadtree, subscribers, currentTick, pc,
                   outbox, intentsSeen, arrivals, validation,
                   extVars, aoiSeen>>

\* EntityManager.ClearPendingMoves, under em.mu
ClearPendingMoves(id, upToSequence) ==
    /\ Has(entities, id)
    /\ entities' = [entities EXCEPT ![id] = StoreClearPendingMoves(@, upToSequence)]
    /\ UNCHANGED <<clientMap, nextEntityID, movementBuffer, quadtree, subscribers, currentTick, pc,
                   outbox, intentsSeen, arrivals, validation,
                   extVars, aoiSeen>>

AddPending == \E id \in DOMAIN entities, d \in Intents : AddPendingMove(id, d)

ClearPending == \E id \in DOMAIN entities, s \in 0..MaxSeq : ClearPendingMoves(id, s)

\* the engine after SpawnEntity("player", 0, 0, "c1")
InitStore ==
    LET created == CreateEntity(Store(EmptyMap, EmptyMap, FirstEntityID), 0, 0, "c1")
    IN  /\ entities = created.entities
        /\ clientMap = created.clientMap
        /\ nextEntityID = created.nextEntityID
        /\ quadtree = Insert(NewQuadtreeFromConfig, FirstEntityID, Positions(created.entities)).qt
        /\ movementBuffer = EmptyMap
        /\ subscribers = EmptyMap
        /\ currentTick = 0
        /\ pc = "idle"
        /\ outbox = <<>>
        /\ intentsSeen = 0
        /\ arrivals = <<>>
        /\ validation = <<>>
        /\ aoiSeen = EmptyMap
        /\ InitExt

NextStore ==
    \/ Intent
    \/ AddPending
    \/ ClearPending
    \/ TickStart
    \/ TickMovementDeltas
    \/ TickEntityPositions
    \/ TickSpatialIndex
    \/ TickAOIEvents
    \/ TickEnd

\* the engine's entity with the entity manager's entry points called directly
SpecStore == InitStore /\ [][NextStore]_vars

(* --------------------- the validator, called directly ----------------- *)

\* the deltas handed to the validator: of length maxSpeed, above it, above three times it
ValidateVectors == {<<5, 0>>, <<3, 4>>, <<-3, -4>>, <<10, 0>>, <<6, 8>>, <<16, 0>>}

ValidateIntents == {Delta(s, d[1], d[2]) : s \in 1..MaxSeq, d \in ValidateVectors}

\* AuthoritySystem.ValidateMovement: the call and what it returned
ValidateMovement(id, delta) ==
    /\ Has(entities, id)
    /\ validation' = << [Position |-> entities[id].Position,
                         LastSequence |-> entities[id].LastSequence,
                         Delta |-> delta,
                         Result |-> Validate(entities[id], delta)] >>
    /\ UNCHANGED <<entities, clientMap, nextEntityID, movementBuffer, quadtree, subscribers,
                   currentTick, pc, outbox, intentsSeen, arrivals,
                   extVars, aoiSeen>>

\* one entity anywhere in the world, with any last sequence number
InitAuthority ==
    \E x \in MinX..MaxX, y \in MinY..MaxY, last \in 0..MaxSeq :
        LET ent == [NewEntity(FirstEntityID, x, y, "c1") EXCEPT !.LastSequence = last]
            ents == Put(EmptyMap, FirstEntityID, ent)
        IN  /\ entities = ents
            /\ clientMap = Put(EmptyMap, "c1", FirstEntityID)
            /\ nextEntityID = FirstEntityID + 1
            /\ quadtree = Insert(NewQuadtreeFromConfig, FirstEntityID, Positions(ents)).qt
            /\ movementBuffer = EmptyMap
            /\ subscribers = EmptyMap
            /\ currentTick = 0
            /\ pc = "idle"
            /\ outbox = <<>>
            /\ intentsSeen = 0
            /\ arrivals = <<>>
            /\ validation = <<>>
            /\ aoiSeen = EmptyMap
            /\ InitExt

NextAuthority == \E id \in DOMAIN entities, d \in ValidateIntents : ValidateMovement(id, d)

\* the validator applied to every entity and delta of the bounded sets
SpecAuthority == InitAuthority /\ [][NextAuthority]_vars

(* ------------------- the spatial index, called directly --------------- *)

\* the positions handed to the index: inside, on the split lines, on every edge
QuadtreePoints == {Vec(x, y) : x \in {MinX, -4, 0, 3, MaxX}, y \in {MinY, 0, 4, MaxY}}

\* the centres and the radii of the radius queries
QueryCenters == {Vec(-4, 0), Vec(0, 0), Vec(4, 0), Vec(3, 4), Vec(MaxX, MaxY)}

QueryRadii == {0, AOIRadius, AOIRadius + 1}

\* what a call of the index returned
Found(op, center, radius, ok, ids) ==
    [op |-> op, center |-> center, radius |-> radius, ok |-> ok, ids |-> ids]

\* a new entity at position and Quadtree.Insert of it
QuadtreeInsert(position) ==
    /\ nextEntityID <= MaxIds
    /\ LET id == nextEntityID
           ents == Put(entities, id, NewEntity(id, position.X, position.Y, NoClient))
           r == Insert(quadtree, id, Positions(ents))
       IN  /\ entities' = ents
           /\ quadtree' = r.qt
           /\ found' = <<Found("Insert", position, 0, r.ok, <<id>>)>>
    /\ nextEntityID' = nextEntityID + 1
    /\ UNCHANGED <<clientMap, movementBuffer, subscribers, currentTick, pc, outbox, intentsSeen,
                   arrivals, validation,
                   registry, gameQuadtree, aoiSeen, hubVars, tickVars>>

\* Quadtree.Remove of an entity by its id; an entity the tree has given up is
\* given up by its owner as well
QuadtreeRemove(id) ==
    /\ LET r == Remove(quadtree, id)
       IN  /\ quadtree' = r.qt
           /\ entities' = IF r.ok THEN Delete(entities, id) ELSE entities
           /\ found' = <<Found("Remove", Vec(0, 0), 0, r.ok, <<id>>)>>
    /\ UNCHANGED <<clientMap, nextEntityID, movementBuffer, subscribers, currentTick, pc, outbox,
                   intentsSeen, arrivals, validation,
                   registry, gameQuadtree, aoiSeen, hubVars, tickVars>>

\* Quadtree.QueryBounds with the world rectangle the tree was made with
QuadtreeQueryBounds ==
    /\ found' = <<Found("QueryBounds", Vec(0, 0), 0, TRUE,
                        QueryBounds(quadtree, NewQuadtreeFromConfig.bounds, Positions(entities)))>>
    /\ UNCHANGED <<entities, clientMap, nextEntityID, movementBuffer, quadtree, subscribers,
                   currentTick, pc, outbox, intentsSeen, arrivals, validation,
                   registry, gameQuadtree, aoiSeen, hubVars, tickVars>>

\* Quadtree.QueryRadius
QuadtreeQueryRadius(center, radius) ==
    /\ found' = <<Found("QueryRadius", center, radius, TRUE,
                        QueryRadius(quadtree, center, radius, Positions(entities)))>>
    /\ UNCHANGED <<entities, clientMap, nextEntityID, movementBuffer, quadtree, subscribers,
                   currentTick, pc, outbox, intentsSeen, arrivals, validation,
                   registry, gameQuadtree, aoiSeen, hubVars, tickVars>>

NextQuadtree ==
    \/ \E p \in QuadtreePoints : QuadtreeInsert(p)
    \/ \E id \in 1..(MaxIds + 1) : QuadtreeRemove(id)
    \/ QuadtreeQueryBounds
    \/ \E c \in QueryCenters, r \in QueryRadii : QuadtreeQueryRadius(c, r)

\* an empty index, filled and queried
SpecQuadtree == Init /\ [][NextQuadtree]_vars

(* --------------- the game engine's quadtree, called directly ---------- *)

\* a new entity at position and Quadtree.Insert of it, as in the loop of GameEngine.Tick
GameQuadtreeInsert(position) ==
    /\ Cardinality(DOMAIN registry) < MaxIds
    /\ LET id == Cardinality(DOMAIN registry) + 1
           ents == Put(registry, id, GameEntity(id, position.X, position.Y))
           r == GameInsert(gameQuadtree, id, Positions(ents))
       IN  /\ registry' = ents
           /\ gameQuadtree' = r.qt
           /\ found' = <<Found("Insert", position, 0, r.ok, <<id>>)>>
    /\ UNCHANGED <<entities, clientMap, nextEntityID, movementBuffer, quadtree, subscribers,
                   currentTick, pc, outbox, intentsSeen, arrivals, validation, aoiSeen, hubVars, tickVars>>

\* Quadtree.QueryCircle of the game engine
GameQuadtreeQueryCircle(center, radius) ==
    /\ found' = <<Found("QueryCircle", center, radius, TRUE,
                        QueryCircle(gameQuadtree, Circle(center.X, center.Y, radius),
                                    Positions(registry)))>>
    /\ UNCHANGED <<entities, clientMap, nextEntityID, movementBuffer, quadtree, subscribers,
                   currentTick, pc, outbox, intentsSeen, arrivals, validation, registry,
                   gameQuadtree, aoiSeen, hubVars, tickVars>>

NextGameQuadtree ==
    \/ \E p \in QuadtreePoints : GameQuadtreeInsert(p)
    \/ \E c \in QueryCenters, r \in QueryRadii : GameQuadtreeQueryCircle(c, r)

\* the game engine's empty quadtree, filled and queried
SpecGameQuadtree == Init /\ [][NextGameQuadtree]_vars

(* --------------------- the AOI manager, called directly --------------- *)

\* positions on a line: two within aoiRadius of the middle, one on the right edge
AOIPoints == {Vec(-4, 0), Vec(0, 0), Vec(3, 0), Vec(MaxX, 0)}

\* what a call of AOIManager.UpdateEntity found and returned
AOIUpdate(entityID, memory, events) ==
    [op |-> "UpdateEntity", entityID |-> entityID, memory |-> memory, events |-> events]

\* a new entity at position, put into the index as SpawnEntity does
AOISpawn(position) ==
    /\ nextEntityID <= MaxIds + 2
    /\ LET id == nextEntityID
           ents == Put(entities, id, NewEntity(id, position.X, position.Y, NoClient))
       IN  /\ entities' = ents
           /\ quadtree' = Insert(quadtree, id, Positions(ents)).qt
    /\ nextEntityID' = nextEntityID + 1
    /\ found' = <<>>
    /\ UNCHANGED <<clientMap, movementBuffer, subscribers, currentTick, pc, outbox, intentsSeen,
                   arrivals, validation, aoiSeen, registry, gameQuadtree, hubVars, tickVars>>

\* an entity takes a new position and Quadtree.Update follows, as in updateEntityPositions
AOIMove(id, position) ==
    /\ Has(entities, id)
    /\ entities[id].Position # position
    /\ LET ents == [entities EXCEPT ![id].Position = position]
       IN  /\ entities' = ents
           /\ quadtree' = Update(quadtree, id, Positions(ents)).qt
    /\ found' = <<>>
    /\ UNCHANGED <<clientMap, nextEntityID, movementBuffer, subscribers, currentTick, pc, outbox,
                   intentsSeen, arrivals, validation, aoiSeen, registry, gameQuadtree, hubVars, tickVars>>

\* AOIManager.UpdateEntity(id, position of id), as in processAOIEvents
AOIUpdateEntity(id) ==
    /\ Has(entities, id)
    /\ LET u == UpdateEntity(subscribers, quadtree, id, entities[id].Position, Positions(entities))
       IN  /\ subscribers' = u.subscribers
           /\ found' = <<AOIUpdate(id, IF Has(subscribers, id) THEN subscribers[id] ELSE {}, u.events)>>
    /\ UNCHANGED <<entities, clientMap, nextEntityID, movementBuffer, quadtree, currentTick, pc,
                   outbox, intentsSeen, arrivals, validation, aoiSeen, registry, gameQuadtree, hubVars, tickVars>>

NextAOI ==
    \/ \E p \in AOIPoints : AOISpawn(p)
    \/ \E id \in DOMAIN entities, p \in AOIPoints : AOIMove(id, p)
    \/ AOIUpdateEntity(FirstEntityID)

\* entities placed and moved in the index, and the AOI manager asked about them
SpecAOI == Init /\ [][NextAOI]_vars

(* ------------------- the entity manager's id counter ------------------ *)

\* the number of CreateEntity calls of a run
MaxCreates == 3

\* the values of em.nextEntityID a run starts from: a new manager, and a
\* manager whose counter holds 2^32 - 2 (held as -2)
StartCounters == {FirstEntityID, -2}

\* what a call of CreateEntity returned
Created(id) == [op |-> "CreateEntity", id |-> id]

\* a manager whose earlier entities have all been removed
InitIds ==
    /\ entities = EmptyMap
    /\ clientMap = EmptyMap
    /\ nextEntityID \in StartCounters
    /\ movementBuffer = EmptyMap
    /\ quadtree = NewQuadtreeFromConfig
    /\ subscribers = EmptyMap
    /\ currentTick = 0
    /\ pc = "idle"
    /\ outbox = <<>>
    /\ intentsSeen = 0
    /\ arrivals = <<>>
    /\ validation = <<>>
    /\ aoiSeen = EmptyMap
    /\ InitExt

\* EntityManager.CreateEntity
IdsCreate(x, y, clientID) ==
    /\ Len(found) < MaxCreates
    /\ LET em == CreateEntity(Store(entities, clientMap, nextEntityID), x, y, clientID)
       IN  /\ entities' = em.entities
           /\ clientMap' = em.clientMap
           /\ nextEntityID' = em.nextEntityID
    /\ found' = Append(found, Created(nextEntityID))
    /\ UNCHANGED <<movementBuffer, quadtree, subscribers, currentTick, pc, outbox, intentsSeen,
                   arrivals, validation, aoiSeen, registry, gameQuadtree, hubVars, tickVars>>

\* EntityManager.RemoveEntity
IdsRemove(id) ==
    /\ Has(entities, id)
    /\ LET em == StoreRemoveEntity(Store(entities, clientMap, nextEntityID), id)
       IN  /\ entities' = em.entities
           /\ clientMap' = em.clientMap
    /\ UNCHANGED <<nextEntityID, movementBuffer, quadtree, subscribers, currentTick, pc, outbox,
                   intentsSeen, arrivals, validation, aoiSeen, found, registry, gameQuadtree,
                   hubVars, tickVars>>

NextIds ==
    \/ \E p \in SpawnPoints, c \in Clients \cup {NoClient} : IdsCreate(p[1], p[2], c)
    \/ \E id \in DOMAIN entities : IdsRemove(id)

\* entities created and removed through the entity manager alone
SpecIds == InitIds /\ [][NextIds]_vars

(* ------------------------ the hub and the gateway --------------------- *)

\* the connections that reach the hub in a run
HubHandles == 1..MaxIds

\* the message bytes sent in a run
Payloads == {"a", "b"}

\* the engine state and the game quadtree, which the sessions leave alone
nonSessionVars ==
    <<entities, clientMap, nextEntityID, movementBuffer, quadtree, subscribers, currentTick,
      pc, outbox, intentsSeen, arrivals, validation, aoiSeen, gameQuadtree, tickVars>>

\* what a send was given: the sessions it was for and the message
Sent(op, to, message) == [op |-> op, to |-> to, message |-> message]

\* Hub.Run, case register; the client comes with an empty send channel
HubRegister(client) ==
    /\ ~Has(wsClients, client)
    /\ LET entityID == hub.nextEntityID + 1
       IN  /\ hub' = [clients |-> hub.clients \cup {client},
                      clientsByEntityID |-> Put(hub.clientsByEntityID, entityID, client),
                      nextEntityID |-> entityID]
           /\ wsClients' = Put(wsClients, client, [entityID |-> entityID, send |-> NewChannel])
           /\ registry' = Put(registry, entityID, GameEntity(entityID, 0, 0))
    /\ found' = <<>>
    /\ UNCHANGED <<nonSessionVars, gatewayVars>>

\* Hub.Run, case unregister
HubUnregister(client) ==
    /\ Has(wsClients, client)
    /\ IF client \in hub.clients
       THEN /\ hub' = [hub EXCEPT !.clients = @ \ {client},
                                  !.clientsByEntityID = Delete(@, wsClients[client].entityID)]
            /\ wsClients' = [wsClients EXCEPT ![client].send.closed = TRUE]
            /\ registry' = Delete(registry, wsClients[client].entityID)
       ELSE UNCHANGED <<hub, wsClients, registry>>
    /\ found' = <<>>
    /\ UNCHANGED <<nonSessionVars, gatewayVars>>

\* Hub.BroadcastTo(entityID, payload)
HubBroadcastTo(entityID, payload) ==
    /\ wsClients' = BroadcastTo(hub, wsClients, entityID, payload)
    /\ found' = <<Sent("BroadcastTo",
                       IF Has(hub.clientsByEntityID, entityID)
                       THEN {hub.clientsByEntityID[entityID]} ELSE {},
                       payload)>>
    /\ UNCHANGED <<nonSessionVars, hub, registry, gatewayVars>>

\* Hub.Run, case broadcast: every registered client is tried; the iterations
\* touch different clients, so the order of the map does not show
HubBroadcast(message) ==
    /\ LET full == FullClients(hub, wsClients)
           gone == {wsClients[c].entityID : c \in full}
       IN  /\ hub' = [hub EXCEPT !.clients = @ \ full,
                                 !.clientsByEntityID = [e \in DOMAIN @ \ gone |-> @[e]]]
           /\ wsClients' = [c \in DOMAIN wsClients |->
                               IF c \in full THEN [wsClients[c] EXCEPT !.send.closed = TRUE]
                               ELSE IF c \in hub.clients
                                    THEN [wsClients[c] EXCEPT !.send = TrySend(@, message)]
                                    ELSE wsClients[c]]
           /\ registry' = [e \in DOMAIN registry \ gone |-> registry[e]]
    /\ found' = <<Sent("Broadcast", hub.clients, message)>>
    /\ UNCHANGED <<nonSessionVars, gatewayVars>>

\* the writer of a hub client takes the oldest message from its send channel
HubWritePump(client) ==
    /\ Has(wsClients, client)
    /\ wsClients[client].send.queue # <<>>
    /\ wsClients' = [wsClients EXCEPT ![client].send.queue = Tail(@)]
    /\ found' = <<>>
    /\ UNCHANGED <<nonSessionVars, hub, registry, gatewayVars>>

\* the variables of the engine that a message from a client can change
gatewayEngineVars ==
    <<entities, clientMap, nextEntityID, quadtree, subscribers, movementBuffer, intentsSeen,
      arrivals>>

\* the variables no goroutine of the gateway touches
gatewayFrame ==
    <<currentTick, pc, outbox, validation, aoiSeen, registry, gameQuadtree, hub, wsClients,
      tickVars>>

\* the number of messages the clients send in a run
MaxMessages == 3

\* what readPump was given by ReadMessage
ReadMessage(clientID, kind) == [op |-> "ReadMessage", client |-> clientID, kind |-> kind]

\* readPump is blocked in ReadMessage on an open connection before its deadline
Reading(clientID) ==
    /\ ~gateway.panicked
    /\ Has(pumps, clientID)
    /\ pumps[clientID].readPump = "running"
    /\ ~pumps[clientID].closed
    /\ pumps[clientID].deadline > 0

\* readPump is blocked in ReadMessage on an open connection before its deadline
\* and is given a message
Receiving(clientID) == Reading(clientID) /\ messagesRead < MaxMessages

\* WebSocketGateway.handleWebSocket: a new client with an empty sendChan and
\* its two goroutines; generateClientID gives every connection an id of its own
GatewayConnect(clientID) ==
    /\ ~gateway.panicked
    /\ ~gateway.shutdown
    /\ ~Has(pumps, clientID)
    /\ gatewayClients' = Put(gatewayClients, clientID, NewClient(clientID))
    /\ pumps' = Put(pumps, clientID, NewPumps)
    /\ UNCHANGED messagesRead
    /\ found' = <<>>
    /\ UNCHANGED <<gatewayEngineVars, gatewayFrame, gateway>>

\* WebSocketGateway.BroadcastToClient(clientID, data); the send on a sendChan
\* that Client.Close has closed panics
GatewayBroadcastToClient(clientID, data) ==
    /\ ~gateway.panicked
    /\ IF Has(gatewayClients, clientID) /\ gatewayClients[clientID].sendChan.closed
       THEN /\ gateway' = [gateway EXCEPT !.panicked = TRUE]
            /\ UNCHANGED gatewayClients
       ELSE /\ gatewayClients' = BroadcastToClient(gatewayClients, clientID, data)
            /\ UNCHANGED gateway
    /\ UNCHANGED messagesRead
    /\ found' = <<Sent("BroadcastToClient",
                       IF Has(gatewayClients, clientID) THEN {clientID} ELSE {}, data)>>
    /\ UNCHANGED <<gatewayEngineVars, gatewayFrame, pumps>>

\* WebSocketGateway.writePump receives the oldest message of sendChan
GatewayWritePump(clientID) ==
    /\ ~gateway.panicked
    /\ Has(gatewayClients, clientID)
    /\ pumps[clientID].writePump = "running"
    /\ ~pumps[clientID].closed
    /\ gatewayClients[clientID].sendChan.queue # <<>>
    /\ gatewayClients' = [gatewayClients EXCEPT ![clientID].sendChan.queue = Tail(@)]
    /\ UNCHANGED messagesRead
    /\ found' = <<>>
    /\ UNCHANGED <<gatewayEngineVars, gatewayFrame, pumps, gateway>>

\* writePump: a write to the connection fails and writePump returns through
\* its deferred Client.Close
GatewayWriteError(clientID) ==
    /\ ~gateway.panicked
    /\ Has(pumps, clientID)
    /\ pumps[clientID].writePump = "running"
    /\ ~pumps[clientID].closed
    /\ LET c == ClientClose(gatewayClients, pumps, clientID)
       IN  /\ gatewayClients' = c.clients
           /\ pumps' = [c.pumps EXCEPT ![clientID].writePump = "done"]
    /\ UNCHANGED messagesRead
    /\ found' = <<>>
    /\ UNCHANGED <<gatewayEngineVars, gatewayFrame, gateway>>

\* writePump: closeChan is closed, or sendChan is closed and empty; writePump
\* returns and its deferred Client.Close closes closeChan a second time
GatewayWriterStops(clientID) ==
    /\ ~gateway.panicked
    /\ Has(pumps, clientID)
    /\ pumps[clientID].writePump = "running"
    /\ pumps[clientID].closed
    /\ LET c == ClientClose(gatewayClients, pumps, clientID)
       IN  /\ gatewayClients' = c.clients
           /\ pumps' = [c.pumps EXCEPT ![clientID].writePump =
                                          IF c.panic THEN "panicked" ELSE "done"]
           /\ gateway' = [gateway EXCEPT !.panicked = c.panic]
    /\ UNCHANGED messagesRead
    /\ found' = <<>>
    /\ UNCHANGED <<gatewayEngineVars, gatewayFrame>>

\* readPump: ReadMessage returns an error of the transport
GatewayReadError(clientID) ==
    /\ Reading(clientID)
    /\ pumps' = [pumps EXCEPT ![clientID].readPump = "returning"]
    /\ UNCHANGED messagesRead
    /\ found' = <<>>
    /\ UNCHANGED <<gatewayEngineVars, gatewayFrame, gatewayClients, gateway>>

\* readPump: closeChan is closed, or ReadMessage fails because the connection
\* is closed or the read deadline has passed
GatewayReaderStops(clientID) ==
    /\ ~gateway.panicked
    /\ Has(pumps, clientID)
    /\ pumps[clientID].readPump = "running"
    /\ pumps[clientID].closed \/ pumps[clientID].deadline = 0
    /\ pumps' = [pumps EXCEPT ![clientID].readPump = "returning"]
    /\ UNCHANGED messagesRead
    /\ found' = <<>>
    /\ UNCHANGED <<gatewayEngineVars, gatewayFrame, gatewayClients, gateway>>

\* readPump returns: the deferred function calls Client.Close, deletes the
\* client from g.clients and removes its entity; RemoveEntity takes se.mu
GatewayReaderExit(clientID) ==
    /\ ~gateway.panicked
    /\ pc = "idle"
    /\ Has(pumps, clientID)
    /\ pumps[clientID].readPump = "returning"
    /\ LET c == ClientClose(gatewayClients, pumps, clientID)
           entityID == gatewayClients[clientID].entityID
           r == RemoveEntityResult(Store(entities, clientMap, nextEntityID), quadtree,
                                   subscribers, movementBuffer, entityID)
       IN  IF c.panic
           THEN /\ pumps' = [pumps EXCEPT ![clientID].readPump = "panicked"]
                /\ gateway' = [gateway EXCEPT !.panicked = TRUE]
                /\ UNCHANGED <<gatewayClients, gatewayEngineVars>>
           ELSE /\ pumps' = [c.pumps EXCEPT ![clientID].readPump = "done"]
                /\ gatewayClients' = Delete(c.clients, clientID)
                /\ UNCHANGED gateway
                /\ IF entityID # 0
                   THEN /\ entities' = r.em.entities
                        /\ clientMap' = r.em.clientMap
                        /\ quadtree' = r.qt
                        /\ subscribers' = r.subs
                        /\ movementBuffer' = r.buffer
                        /\ UNCHANGED <<nextEntityID, intentsSeen, arrivals>>
                   ELSE UNCHANGED gatewayEngineVars
    /\ UNCHANGED messagesRead
    /\ found' = <<>>
    /\ UNCHANGED gatewayFrame

\* WebSocketGateway.Shutdown: g.shutdown is closed and every client of
\* g.clients is closed, in the order of the Range
GatewayShutdown ==
    /\ ~gateway.panicked
    /\ ~gateway.shutdown
    /\ \E order \in Orders(DOMAIN gatewayClients) :
          LET c == CloseEach(gatewayClients, pumps, order)
          IN  /\ gatewayClients' = c.clients
              /\ pumps' = c.pumps
              /\ gateway' = [shutdown |-> TRUE, panicked |-> c.panic]
    /\ UNCHANGED messagesRead
    /\ found' = <<>>
    /\ UNCHANGED <<gatewayEngineVars, gatewayFrame>>

\* the clock advances by one step towards every read deadline
GatewayTimePasses ==
    /\ ~gateway.panicked
    /\ \E id \in DOMAIN pumps : pumps[id].readPump = "running" /\ pumps[id].deadline > 0
    /\ pumps' = [id \in DOMAIN pumps |->
                    [pumps[id] EXCEPT !.deadline = IF @ > 0 THEN @ - 1 ELSE 0]]
    /\ UNCHANGED messagesRead
    /\ found' = <<>>
    /\ UNCHANGED <<gatewayEngineVars, gatewayFrame, gatewayClients, gateway>>

\* the messages a client sends that readPump and handleMessage throw away:
\* not binary, not decodable, decodable but not valid
Discarded == {"text", "garbage", "invalid"}

\* readPump: a message that is not binary is skipped; handleMessage: a message
\* that Decode or ValidateMessage rejects is logged
GatewayDiscard(clientID, kind) ==
    /\ Receiving(clientID)
    /\ pumps' = [pumps EXCEPT ![clientID].readPump = AfterMessage(kind)]
    /\ messagesRead' = messagesRead + 1
    /\ found' = <<ReadMessage(clientID, kind)>>
    /\ UNCHANGED <<gatewayEngineVars, gatewayFrame, gatewayClients, gateway>>

\* WebSocketGateway.handleSpawnRequest and sendSpawnResponse
GatewaySpawnRequest(clientID, x, y) ==
    /\ Receiving(clientID)
    /\ LET client == gatewayClients[clientID]
           r == SpawnEntityResult(Store(entities, clientMap, nextEntityID), quadtree,
                                  x, y, clientID)
       IN  IF ~MaySpawn(client)
           THEN /\ gatewayClients' =
                      [gatewayClients EXCEPT ![clientID].sendChan =
                                                 TrySend(@, SpawnResponse(FALSE))]
                /\ UNCHANGED <<entities, clientMap, nextEntityID, quadtree>>
           ELSE /\ entities' = r.em.entities
                /\ clientMap' = r.em.clientMap
                /\ nextEntityID' = r.em.nextEntityID
                /\ quadtree' = r.qt
                /\ gatewayClients' =
                      [gatewayClients EXCEPT
                          ![clientID].entityID = IF r.id = 0 THEN @ ELSE r.id,
                          ![clientID].sendChan = TrySend(@, SpawnResponse(r.id # 0))]
    /\ pumps' = [pumps EXCEPT ![clientID].readPump = AfterMessage("spawn")]
    /\ messagesRead' = messagesRead + 1
    /\ found' = <<ReadMessage(clientID, "spawn")>>
    /\ UNCHANGED <<subscribers, movementBuffer, intentsSeen, arrivals, gatewayFrame, gateway>>

\* WebSocketGateway.handleMovementDelta; ProcessMovementIntent takes se.mu
GatewayMovementDelta(clientID, delta) ==
    /\ Receiving(clientID)
    /\ pc = "idle"
    /\ intentsSeen < MaxIntents
    /\ LET client == gatewayClients[clientID]
       IN  IF client.entityID = 0
           THEN UNCHANGED <<gatewayClients, movementBuffer, intentsSeen, arrivals>>
           ELSE /\ gatewayClients' =
                      [gatewayClients EXCEPT ![clientID].lastSeq =
                                                 IF delta.Sequence > @ THEN delta.Sequence ELSE @]
                /\ movementBuffer' =
                      BufferIntent(movementBuffer, entities, client.entityID, delta)
                /\ intentsSeen' = intentsSeen + 1
                /\ arrivals' = Append(arrivals, Arrival(client.entityID, delta))
    /\ pumps' = [pumps EXCEPT ![clientID].readPump = AfterMessage("move")]
    /\ messagesRead' = messagesRead + 1
    /\ found' = <<ReadMessage(clientID, "move")>>
    /\ UNCHANGED <<entities, clientMap, nextEntityID, quadtree, subscribers, gatewayFrame,
                   gateway>>

\* WebSocketGateway.handleHeartbeat: the heartbeat is logged
GatewayHeartbeat(clientID) ==
    /\ Receiving(clientID)
    /\ pumps' = [pumps EXCEPT ![clientID].readPump = AfterMessage("heartbeat")]
    /\ messagesRead' = messagesRead + 1
    /\ found' = <<ReadMessage(clientID, "heartbeat")>>
    /\ UNCHANGED <<gatewayEngineVars, gatewayFrame, gatewayClients, gateway>>

\* the PongHandler of readPump: a pong of the client moves the read deadline
GatewayPong(clientID) ==
    /\ Receiving(clientID)
    /\ pumps' = [pumps EXCEPT ![clientID].deadline = PongWait]
    /\ messagesRead' = messagesRead + 1
    /\ found' = <<ReadMessage(clientID, "pong")>>
    /\ UNCHANGED <<gatewayEngineVars, gatewayFrame, gatewayClients, gateway>>

NextHub ==
    \/ \E c \in HubHandles : HubRegister(c)
    \/ \E c \in HubHandles : HubUnregister(c)
    \/ \E e \in HubHandles, m \in Payloads : HubBroadcastTo(e, m)
    \/ \E m \in Payloads : HubBroadcast(m)
    \/ \E c \in HubHandles : HubWritePump(c)
    \/ \E id \in Clients : GatewayConnect(id)
    \/ \E id \in Clients, m \in Payloads : GatewayBroadcastToClient(id, m)
    \/ \E id \in Clients : GatewayWritePump(id)

\* sessions come and go while messages are sent to them
SpecHub == Init /\ [][NextHub]_vars

(* ------------------------ the sessions of the gateway ------------------ *)

\* the counter of the entity manager when the gateway starts: fresh, and one
\* step before the end of its 32 bits
GatewayStartCounters == {FirstEntityID, -1}

\* the places clients ask to be spawned at: inside the world and outside
GatewaySpawnPoints == {<<0, 0>>, <<MaxX + 1, 0>>}

\* the deltas clients send to the gateway
GatewayIntents == {Delta(1, MaxSpeed, 0)}

InitGateway ==
    /\ entities = EmptyMap
    /\ clientMap = EmptyMap
    /\ nextEntityID \in GatewayStartCounters
    /\ movementBuffer = EmptyMap
    /\ quadtree = NewQuadtreeFromConfig
    /\ subscribers = EmptyMap
    /\ currentTick = 0
    /\ pc = "idle"
    /\ outbox = <<>>
    /\ intentsSeen = 0
    /\ arrivals = <<>>
    /\ validation = <<>>
    /\ aoiSeen = EmptyMap
    /\ InitExt

NextGateway ==
    \/ \E id \in Clients : GatewayConnect(id)
    \/ \E id \in Clients, k \in Discarded : GatewayDiscard(id, k)
    \/ \E id \in Clients, p \in GatewaySpawnPoints : GatewaySpawnRequest(id, p[1], p[2])
    \/ \E id \in Clients, d \in GatewayIntents : GatewayMovementDelta(id, d)
    \/ \E id \in Clients : GatewayHeartbeat(id)
    \/ \E id \in Clients : GatewayPong(id)
    \/ GatewayTimePasses
    \/ \E id \in Clients : GatewayReadError(id)
    \/ \E id \in Clients : GatewayReaderStops(id)
    \/ \E id \in Clients : GatewayReaderExit(id)
    \/ \E id \in Clients : GatewayWritePump(id)
    \/ \E id \in Clients : GatewayWriteError(id)
    \/ \E id \in Clients : GatewayWriterStops(id)
    \/ GatewayShutdown

\* clients connect, send messages, fall silent and leave while the gateway
\* runs and is shut down
SpecGateway == InitGateway /\ [][NextGateway]_vars

NextTeardown ==
    \/ \E id \in Clients : GatewayConnect(id)
    \/ \E id \in Clients, m \in Payloads : GatewayBroadcastToClient(id, m)
    \/ \E id \in Clients : GatewayWritePump(id)
    \/ \E id \in Clients : GatewayWriteError(id)
    \/ \E id \in Clients : GatewayWriterStops(id)
    \/ \E id \in Clients : GatewayReadError(id)
    \/ \E id \in Clients : GatewayReaderStops(id)
    \/ \E id \in Clients : GatewayReaderExit(id)
    \/ GatewayShutdown

\* messages are sent to the clients while their readers and writers leave
\* and the gateway is shut down
SpecTeardown == Init /\ [][NextTeardown]_vars

(* --------------------- the tick manager, called directly -------------- *)

\* the handlers registered in a run
Handlers == {"h1", "h2"}

\* a call the tick manager made on a handler
HandlerCall(method, handler, tick) == [method |-> method, handler |-> handler, tick |-> tick]

\* the engine, the sessions and the game engine, which the tick manager leaves alone
nonTickVars ==
    <<entities, clientMap, nextEntityID, movementBuffer, quadtree, subscribers, pc, outbox,
      intentsSeen, arrivals, validation, aoiSeen, found, registry, gameQuadtree, hubVars>>

\* TickManager.AddHandler, called before Start as NewSpatialEngine does
TMAddHandler(handler) ==
    /\ tickManager.state = "new"
    /\ \A i \in 1..Len(tickManager.tickHandlers) : tickManager.tickHandlers[i] # handler
    /\ tickManager' = [tickManager EXCEPT !.tickHandlers = Append(@, handler)]
    /\ UNCHANGED <<nonTickVars, currentTick, handlerCalls, main>>

\* TickManager.Start is called and reaches the select of its loop
TMStart ==
    /\ tickManager.state = "new"
    /\ tickManager' = [tickManager EXCEPT !.state = "select"]
    /\ UNCHANGED <<nonTickVars, currentTick, handlerCalls, main>>

\* the context given to Start is cancelled
TMCancel ==
    /\ ~tickManager.ctxDone
    /\ tickManager' = [tickManager EXCEPT
                          !.ctxDone = TRUE,
                          !.signalledIn = IF @ = "none" THEN tickManager.state ELSE @]
    /\ UNCHANGED <<nonTickVars, currentTick, handlerCalls, main>>

\* TickManager.Shutdown: close(tm.shutdown)
TMShutdown ==
    /\ ~tickManager.shutdown
    /\ tickManager' = [tickManager EXCEPT
                          !.shutdown = TRUE,
                          !.signalledIn = IF @ = "none" THEN tickManager.state ELSE @]
    /\ UNCHANGED <<nonTickVars, currentTick, handlerCalls, main>>

\* the select of Start takes one of its ready cases; the ticker may have fired
TMSelect ==
    /\ tickManager.state = "select"
    /\ \E case \in ReadyCases(tickManager, currentTick < MaxTicks) :
          /\ tickManager' = BeginHandlers(tickManager, case)
          /\ currentTick' = IF case = "tick" THEN currentTick + 1 ELSE currentTick
    /\ UNCHANGED <<nonTickVars, handlerCalls, main>>

\* processTick calls OnTick of the next handler of its copy
TMOnTick ==
    /\ tickManager.state = "tick"
    /\ handlerCalls' = Append(handlerCalls,
                              HandlerCall("OnTick", tickManager.copied[tickManager.next], currentTick))
    /\ tickManager' = NextHandler(tickManager)
    /\ UNCHANGED <<nonTickVars, currentTick, main>>

\* shutdownHandlers calls OnShutdown of the next handler of its copy
TMOnShutdown ==
    /\ tickManager.state = "shutdown"
    /\ handlerCalls' = Append(handlerCalls,
                              HandlerCall("OnShutdown", tickManager.copied[tickManager.next], currentTick))
    /\ tickManager' = NextHandler(tickManager)
    /\ UNCHANGED <<nonTickVars, currentTick, main>>

NextTick ==
    \/ \E h \in Handlers : TMAddHandler(h)
    \/ TMStart
    \/ TMCancel
    \/ TMShutdown
    \/ TMSelect
    \/ TMOnTick
    \/ TMOnShutdown

\* a tick manager with its handlers, run until Start returns
SpecTick == Init /\ [][NextTick]_vars

(* ------------------------------ the server ---------------------------- *)

\* the gateway serves: main is inside WebSocketGateway.Start, which has
\* launched ListenAndServe and waits for the end of the context
Listening == main = "wsGateway.Start"

\* what a client that dials the address of the gateway is told
Dialled(clientID, accepted) == [op |-> "dial", to |-> {clientID}, ok |-> accepted]

\* main of cmd/server after NewSpatialEngine, which adds the engine to the
\* handlers of its tick manager
InitServer ==
    /\ entities = EmptyMap
    /\ clientMap = EmptyMap
    /\ nextEntityID = FirstEntityID
    /\ movementBuffer = EmptyMap
    /\ quadtree = NewQuadtreeFromConfig
    /\ subscribers = EmptyMap
    /\ currentTick = 0
    /\ pc = "idle"
    /\ outbox = <<>>
    /\ intentsSeen = 0
    /\ arrivals = <<>>
    /\ validation = <<>>
    /\ aoiSeen = EmptyMap
    /\ found = <<>>
    /\ registry = EmptyMap
    /\ gameQuadtree = GameNewQuadtree(NewAABB(0, 0, WorldHalf * GameScale))
    /\ hub = NewHub
    /\ wsClients = EmptyMap
    /\ gatewayClients = EmptyMap
    /\ pumps = EmptyMap
    /\ gateway = NewWebSocketGateway
    /\ messagesRead = 0
    /\ tickManager = [NewTickManager EXCEPT !.tickHandlers = <<"engine">>]
    /\ handlerCalls = <<>>
    /\ main = "main"

\* main can take its next step: it is not inside a call that has not returned
\* and not waiting on a channel nobody has written or closed
MainRunnable ==
    CASE main = "main" -> TRUE
      [] main = "spatialEngine.Start" -> tickManager.state = "returned"
      [] main = "wsGateway.Start" -> tickManager.ctxDone
      [] main = "sigChan" -> TRUE
      [] OTHER -> FALSE

\* the next step of main: it calls spatialEngine.Start, which calls
\* tickManager.Start on the same goroutine; when that has returned, without an
\* error, it calls wsGateway.Start, which serves until the context is done;
\* then it waits for a signal, shuts the gateway and the engine down and returns
MainStep ==
    /\ MainRunnable
    /\ CASE main = "main" ->
               /\ main' = "spatialEngine.Start"
               /\ tickManager' = [tickManager EXCEPT !.state = "select"]
               /\ UNCHANGED <<gatewayClients, pumps, gateway>>
          [] main = "spatialEngine.Start" ->
               /\ main' \in (IF tickManager.ctxDone THEN {"exited"} ELSE {})
                               \cup (IF tickManager.shutdown THEN {"wsGateway.Start"} ELSE {})
               /\ UNCHANGED <<tickManager, gatewayClients, pumps, gateway>>
          [] main = "wsGateway.Start" ->
               /\ main' = "sigChan"
               /\ UNCHANGED <<tickManager, gatewayClients, pumps, gateway>>
          [] OTHER ->
               /\ main' = "exited"
               /\ \E order \in Orders(DOMAIN gatewayClients) :
                     LET c == CloseEach(gatewayClients, pumps, order)
                     IN  /\ gatewayClients' = c.clients
                         /\ pumps' = c.pumps
                         /\ gateway' = [shutdown |-> TRUE, panicked |-> c.panic]
               /\ tickManager' = [tickManager EXCEPT !.shutdown = TRUE]
    /\ UNCHANGED <<gatewayEngineVars, currentTick, pc, outbox, validation, aoiSeen, found,
                   registry, gameQuadtree, hub, wsClients, messagesRead, handlerCalls>>

\* the select of Start inside main's goroutine; the ticker fires for as long
\* as the process runs, and ticks past MaxTicks are counted as tick MaxTicks
ServerSelect ==
    /\ tickManager.state = "select"
    /\ \E case \in ReadyCases(tickManager, TRUE) :
          /\ tickManager' = BeginHandlers(tickManager, case)
          /\ currentTick' = IF case = "tick" THEN Min2(currentTick + 1, MaxTicks)
                            ELSE currentTick
    /\ UNCHANGED <<nonTickVars, handlerCalls, main>>

\* processTick calls OnTick of the next handler of its copy; the history
\* keeps the first MaxTicks calls
ServerOnTick ==
    /\ tickManager.state = "tick"
    /\ handlerCalls' = IF Len(handlerCalls) < MaxTicks
                       THEN Append(handlerCalls,
                                   HandlerCall("OnTick", tickManager.copied[tickManager.next],
                                               currentTick))
                       ELSE handlerCalls
    /\ tickManager' = NextHandler(tickManager)
    /\ UNCHANGED <<nonTickVars, currentTick, main>>

\* a client dials the address of the gateway: handleWebSocket registers it
\* if the gateway serves, and the connection is refused if it does not
Dial(clientID) ==
    /\ Len(found) < MaxCreates
    /\ IF Listening
       THEN GatewayConnect(clientID)
       ELSE /\ found' = Append(found, Dialled(clientID, FALSE))
            /\ UNCHANGED <<gatewayEngineVars, gatewayFrame, gatewayVars>>

NextServer ==
    \/ MainStep
    \/ ServerSelect
    \/ ServerOnTick
    \/ \E id \in Clients : Dial(id)

\* the server from the start of its process, with clients that dial it
SpecServer == InitServer /\ [][NextServer]_vars

\* every goroutine that can take a step takes one in the end
SpecServerFair ==
    /\ SpecServer
    /\ WF_vars(MainStep)
    /\ WF_vars(ServerSelect)
    /\ WF_vars(ServerOnTick)

(* ----------------------------- properties ----------------------------- *)

InWorld(p) == MinX <= p.X /\ p.X <= MaxX /\ MinY <= p.Y /\ p.Y <= MaxY

WorldPoints == {Vec(x, y) : x \in MinX..MaxX, y \in MinY..MaxY}

\* the tick has passed processMovementDeltas
AfterIntentPhase == pc \in {"positions", "index", "aoi", "end"}

ArrivalsOf(id) == {i \in 1..Len(arrivals) : arrivals[i].EntityId = id}

\* the number of Corrections for entity id, addressed to client, in a sequence of messages
CorrectionsIn(out, id, client) ==
    Cardinality({i \in 1..Len(out) :
                    out[i].Type = "CORRECTION" /\ out[i].EntityId = id /\ out[i].ClientID = client})

\* C1: whenever no tick is in progress, so after every completed tick, every
\* live entity's position lies within the world bounds, componentwise.
C1_PositionWithinBounds ==
    pc = "idle" =>
        \A id \in DOMAIN entities :
            /\ MinX <= entities[id].Position.X /\ entities[id].Position.X <= MaxX
            /\ MinY <= entities[id].Position.Y /\ entities[id].Position.Y <= MaxY

\* a tick has ended with an entity stopped on the right edge by the clamp
C1_Witness ==
    /\ pc = "idle"
    /\ currentTick > 0
    /\ \E id \in DOMAIN entities :
          /\ entities[id].Position.X = MaxX
          /\ entities[id].Velocity = Vec(0, 0)
          /\ entities[id].LastSequence > 0

\* C2: no step of the engine or of the entity manager lowers the
\* LastSequence of an entity that lives through the step.
C2_LastSequenceNeverDecreases ==
    [][\A id \in DOMAIN entities \cap DOMAIN entities' :
          entities'[id].LastSequence >= entities[id].LastSequence]_vars

\* C3: once the tick has drained an entity's buffer, the entity's
\* LastSequence is the largest sequence number among its accepted intents.
C3_LastSequenceIsMaxAccepted ==
    AfterIntentPhase =>
        \A id \in DOMAIN entities :
            LET accepted == {arrivals[i].Sequence : i \in {j \in ArrivalsOf(id) : arrivals[j].buffered}}
            IN  accepted # {} =>
                    /\ entities[id].LastSequence \in accepted
                    /\ \A q \in accepted : q <= entities[id].LastSequence

\* two intents were accepted in descending order of sequence and drained
C3_Witness ==
    /\ pc = "positions"
    /\ \E id \in DOMAIN entities :
          \E i, j \in ArrivalsOf(id) :
              /\ i < j
              /\ arrivals[i].buffered /\ arrivals[j].buffered
              /\ arrivals[i].Sequence > arrivals[j].Sequence
              /\ entities[id].LastSequence = arrivals[i].Sequence

\* C4: an intent whose sequence is not above the entity's LastSequence when
\* it arrives is not buffered and leaves the entities as they were; and the
\* tick that drains the buffer never leaves an entity with a LastSequence
\* below its old one or below a buffered sequence, nor moves it: the entity
\* ends with the sequence and the delta of the highest buffered intent, as
\* if the ones below it had not been there.
C4_StaleIntentIgnored ==
    [][/\ Len(arrivals') = Len(arrivals) + 1 =>
              LET a == arrivals'[Len(arrivals')]
              IN  (a.known /\ ~a.fresh) =>
                      /\ ~a.buffered
                      /\ entities' = entities
                      /\ movementBuffer' = movementBuffer
       /\ (pc = "deltas" /\ pc' = "positions") =>
              \A id \in DOMAIN movementBuffer \cap DOMAIN entities :
                  /\ entities'[id].Position = entities[id].Position
                  /\ entities'[id].LastSequence >= entities[id].LastSequence
                  /\ \A k \in 1..Len(movementBuffer[id]) :
                        entities'[id].LastSequence >= movementBuffer[id][k].Sequence
                  /\ movementBuffer[id] # <<>> =>
                        \E k \in 1..Len(movementBuffer[id]) :
                            /\ entities'[id].LastSequence = movementBuffer[id][k].Sequence
                            /\ entities'[id].Velocity
                                  = Vec(movementBuffer[id][k].DeltaX, movementBuffer[id][k].DeltaY)]_vars

\* an intent arrived for a live entity with a sequence it had already
\* passed, and with a delta that is neither too long nor leads outside
C4_Witness ==
    \E i \in 1..Len(arrivals) :
        /\ arrivals[i].known
        /\ ~arrivals[i].fresh
        /\ arrivals[i].inBounds
        /\ ~LongerThan(arrivals[i].DeltaX, arrivals[i].DeltaY, MaxSpeed)
        /\ ~arrivals[i].buffered
        /\ arrivals[i].EntityId \in DOMAIN entities
        /\ entities[arrivals[i].EntityId].LastSequence >= arrivals[i].Sequence

\* C5: after the intent phase, an entity whose only intent of the tick was
\* fresh, led to a point inside the bounds, and was longer than maxSpeed
\* but not longer than 3*maxSpeed, has the scaled delta as velocity and the
\* intent's sequence as LastSequence.
C5_SpeedClampApplied ==
    pc = "positions" =>
        \A id \in DOMAIN entities :
            \A i \in ArrivalsOf(id) :
                LET a == arrivals[i]
                    scaled == limitSpeed(Delta(a.Sequence, a.DeltaX, a.DeltaY), MaxSpeed)
                IN  ( /\ ArrivalsOf(id) = {i}
                      /\ a.fresh
                      /\ a.inBounds
                      /\ LongerThan(a.DeltaX, a.DeltaY, MaxSpeed)
                      /\ ~LongerThan(a.DeltaX, a.DeltaY, TeleportFactor * MaxSpeed)
                      /\ InWorld(Vec(entities[id].Position.X + scaled.DeltaX,
                                     entities[id].Position.Y + scaled.DeltaY)) )
                    => /\ entities[id].Velocity = Vec(scaled.DeltaX, scaled.DeltaY)
                       /\ entities[id].LastSequence = a.Sequence

\* C6: the validator answers a fresh intent longer than 3*maxSpeed with the
\* reason teleport and without a clamped delta.
C6_TeleportRejected ==
    \A i \in 1..Len(validation) :
        LET v == validation[i]
        IN  ( /\ v.Delta.Sequence > v.LastSequence
              /\ LongerThan(v.Delta.DeltaX, v.Delta.DeltaY, TeleportFactor * MaxSpeed) )
            => /\ ~v.Result.Valid
               /\ v.Result.Reason = "teleportation detected"
               /\ ~v.Result.Modified
               /\ v.Result.NewDelta = <<>>

\* the validator reached its bounds step and found position + delta outside
OutOfBoundsCase(v) ==
    /\ v.Delta.Sequence > v.LastSequence
    /\ ~InWorld(Vec(v.Position.X + v.Delta.DeltaX, v.Position.Y + v.Delta.DeltaY))

\* the grid vectors k*d with 0 <= k <= 1
ScalarMultiples(d) ==
    {m \in [X : (-Abs(d.DeltaX))..Abs(d.DeltaX), Y : (-Abs(d.DeltaY))..Abs(d.DeltaY)] :
        /\ m.X * d.DeltaY = m.Y * d.DeltaX
        /\ m.X * d.DeltaX >= 0
        /\ m.Y * d.DeltaY >= 0}

C8_OneCorrectionPerRejection ==
    pc = "positions" =>
        \A id \in DOMAIN entities :
            CorrectionsIn(outbox, id, entities[id].ClientID)
                = Cardinality({i \in ArrivalsOf(id) : ~arrivals[i].buffered})

C10_VelocityWithinMaxSpeed ==
    pc = "positions" =>
        \A id \in DOMAIN entities :
            LengthSq(entities[id].Velocity.X, entities[id].Velocity.Y) <= Sq(MaxSpeed)

\* an intent of length maxSpeed has just been applied
C10_Witness ==
    /\ pc = "positions"
    /\ \E id \in DOMAIN entities :
          /\ LengthSq(entities[id].Velocity.X, entities[id].Velocity.Y) = Sq(MaxSpeed)
          /\ \E i \in ArrivalsOf(id) :
                arrivals[i].buffered /\ arrivals[i].Sequence = entities[id].LastSequence

\* C11: within a tick's messages, in the order they were handed to the
\* dispatcher, every Correction comes after every AOI broadcast (EntityState
\* or Despawn) of that tick.
C11_CorrectionsAfterAOIBroadcasts ==
    \A i, j \in 1..Len(outbox) :
        (outbox[i].Type = "CORRECTION" /\ outbox[j].Type \in {"ENTITY_STATE", "DESPAWN"}) => j < i

\* C12: when the AOI phase of a tick starts, the ids held in the spatial
\* index are exactly the ids of the live entities.
C12_IndexHoldsLiveEntities ==
    pc = "aoi" => StoredIds(quadtree) = DOMAIN entities

\* the ids of a sequence are pairwise different
NoDuplicates(ids) == \A i, j \in 1..Len(ids) : i # j => ids[i] # ids[j]

\* C13: a query of the whole world rectangle returns every entity handed
\* to Insert, each once, wherever in the closed world bounds it lies.
C13_RoundTrip ==
    \A k \in 1..Len(found) :
        found[k].op = "QueryBounds" =>
            /\ Range(found[k].ids) = DOMAIN entities
            /\ NoDuplicates(found[k].ids)

\* C14: a radius query returns exactly the inserted entities whose distance
\* to the centre is at most the radius, each once.
C14_RadiusQueryExact ==
    \A k \in 1..Len(found) :
        found[k].op = "QueryCircle" =>
            /\ Range(found[k].ids)
                  = {id \in DOMAIN registry :
                        DistanceSq(registry[id].Position, found[k].center) <= Sq(found[k].radius)}
            /\ NoDuplicates(found[k].ids)

\* a message of the AOI phase: an EntityState or a Despawn
IsAOIBroadcast(m) == m.Type \in {"ENTITY_STATE", "DESPAWN"}

\* C15: an AOI phase that finds the same entities at the same positions as
\* the AOI phase of the tick before leaves every observer's memory as it is
\* (nothing entered, nothing exited) and hands no broadcast to any observer.
C15_AOIIdempotence ==
    [][(pc = "aoi" /\ pc' = "end" /\ aoiSeen = Positions(entities)) =>
           /\ subscribers' = subscribers
           /\ \A k \in 1..Len(outbox') : ~IsAOIBroadcast(outbox'[k])]_vars

\* the neighbours the index holds for an observer: the indexed entities
\* within aoiRadius of its position, the observer itself left out
IndexedNeighbours(id) ==
    {n \in StoredIds(quadtree) \ {id} :
        DistanceSq(entities[n].Position, entities[id].Position) <= Sq(AOIRadius)}

\* the number of events of a type that name another entity
EventCount(events, type, other) ==
    Cardinality({i \in 1..Len(events) : events[i].Type = type /\ events[i].OtherID = other})

InMemory(subs, o, n) == Has(subs, o) /\ n \in subs[o]

\* the messages the AOI phase of a tick hands to queueBroadcast
SentInAOIPhase == SubSeq(outbox', Len(outbox) + 1, Len(outbox'))

\* how many messages of a type among msgs go to clientID and name entityId
MessageCount(msgs, type, clientID, entityId) ==
    Cardinality({i \in 1..Len(msgs) : /\ msgs[i].Type = type
                                      /\ msgs[i].ClientID = clientID
                                      /\ msgs[i].EntityId = entityId})

\* C17: in the tick in which entity N enters the memory of observer O (the two
\* owned by different sessions), O's session is sent exactly one ENTITY_STATE
\* describing N and none describing O itself
C17_OneEntityStateOnEnter ==
    [][(pc = "aoi" /\ pc' = "end") =>
          \A o, n \in DOMAIN entities :
              (/\ o # n
               /\ entities[o].ClientID # entities[n].ClientID
               /\ ~InMemory(subscribers, o, n)
               /\ InMemory(subscribers', o, n))
              => /\ MessageCount(SentInAOIPhase, "ENTITY_STATE", entities[o].ClientID, n) = 1
                 /\ MessageCount(SentInAOIPhase, "ENTITY_STATE", entities[o].ClientID, o) = 0]_vars

\* C18: in the tick in which neighbour N, held in the memory of observer O, is
\* no longer within aoiRadius of O, O's session is sent a DESPAWN naming N
C18_DespawnOnExit ==
    [][(pc = "aoi" /\ pc' = "end") =>
          \A o, n \in DOMAIN entities :
              (/\ o # n
               /\ entities[o].ClientID # entities[n].ClientID
               /\ InMemory(subscribers, o, n)
               /\ DistanceSq(entities[o].Position, entities[n].Position) > Sq(AOIRadius))
              => MessageCount(SentInAOIPhase, "DESPAWN", entities[o].ClientID, n) >= 1]_vars

\* C19: when the AOI phase of a tick is over, for all live entities A and B
\* with owning sessions, B is in A's memory iff A is in B's memory
C19_AOISymmetry ==
    pc = "end" =>
        \A a, b \in DOMAIN entities :
            (a # b /\ entities[a].ClientID # NoClient /\ entities[b].ClientID # NoClient)
            => (InMemory(subscribers, a, b) <=> InMemory(subscribers, b, a))

\* a hub client still registered and open, with the queue it had before
HubSessionKept(client) ==
    /\ client \in hub'.clients
    /\ Has(hub'.clientsByEntityID, wsClients[client].entityID)
    /\ Has(registry', wsClients[client].entityID)
    /\ wsClients'[client].send = wsClients[client].send

\* a gateway client still registered and open, with the queue it had before
GatewaySessionKept(clientID) ==
    /\ Has(gatewayClients', clientID)
    /\ gatewayClients'[clientID].sendChan = gatewayClients[clientID].sendChan

\* C20: a send to a session whose queue is full discards the new message: the
\* queued messages keep their content and order, and the session is neither
\* closed nor unregistered
C20_FullQueueDropsNewest ==
    [][\A k \in 1..Len(found') :
          /\ found'[k].op \in {"BroadcastTo", "Broadcast"} =>
                \A c \in found'[k].to :
                    Len(wsClients[c].send.queue) = QueueDepth => HubSessionKept(c)
          /\ found'[k].op = "BroadcastToClient" =>
                \A id \in found'[k].to :
                    Len(gatewayClients[id].sendChan.queue) = QueueDepth
                    => GatewaySessionKept(id)]_vars

\* C22: no created entity has id 0 and the ids are strictly increasing (as
\* uint32) in the order of creation
C22_IdsSkipZeroAndIncrease ==
    \A k \in 1..Len(found) :
        found[k].op = "CreateEntity" =>
            /\ found[k].id # 0
            /\ (k > 1 /\ found[k - 1].op = "CreateEntity")
               => LessUint32(found[k - 1].id, found[k].id)

\* C23: the number of live entities never exceeds maxEntities
C23_LiveEntitiesWithinMax == Cardinality(DOMAIN entities) <= MaxEntities

\* C26: once the intent phase of a tick is over, and so at the end of every
\* tick, the movement buffer holds nothing: every intent buffered before the
\* tick started has been taken out by it and none is left for a later tick
C26_BufferDrainedByTick == AfterIntentPhase => DOMAIN movementBuffer = {}

\* a tick is at its end and an intent had been buffered before it started
C26_Witness ==
    /\ pc = "end"
    /\ \E i \in 1..Len(arrivals) : arrivals[i].buffered

\* the sequence numbers of the deltas the delta loop applies to ent, in the
\* order in which it applies them
RECURSIVE AppliedSequences(_, _)
AppliedSequences(ent, deltas) ==
    IF deltas = <<>> THEN <<>>
    ELSE LET r == ApplyDelta(ent, Head(deltas))
         IN  (IF r.ent # ent THEN <<Head(deltas).Sequence>> ELSE <<>>)
                \o AppliedSequences(r.ent, Tail(deltas))

\* C27: in the intent phase of a tick the intents of one entity that are
\* applied are applied in strictly ascending order of sequence, whatever
\* the order of the buffer, and the entity is left with the last of them
C27_AppliedInAscendingOrder ==
    [][(pc = "deltas" /\ pc' = "positions") =>
          \A id \in DOMAIN movementBuffer \cap DOMAIN entities :
              LET applied == AppliedSequences(entities[id], movementBuffer[id])
              IN  /\ \A i, j \in 1..Len(applied) : i < j => applied[i] < applied[j]
                  /\ applied # <<>> => entities'[id].LastSequence = applied[Len(applied)]
                  /\ applied = <<>> => entities'[id].LastSequence = entities[id].LastSequence]_vars

\* two intents of one entity, the lower sequence first, were both applied in the tick
C27_Witness ==
    /\ pc = "positions"
    /\ \E id \in DOMAIN entities :
          \E i, j \in ArrivalsOf(id) :
              /\ i < j
              /\ arrivals[i].buffered /\ arrivals[j].buffered
              /\ arrivals[i].inBounds /\ arrivals[j].inBounds
              /\ arrivals[i].Sequence < arrivals[j].Sequence
              /\ entities[id].LastSequence = arrivals[j].Sequence

\* C28: while a tick is between its first and its last phase no entity is
\* added to or removed from the entity store
C28_StoreChangesAtTickBoundary ==
    [][pc # "idle" => DOMAIN entities' = DOMAIN entities]_vars

\* the number of calls of a method made on a handler
CallCount(method, handler) ==
    Cardinality({i \in 1..Len(handlerCalls) :
                    handlerCalls[i].method = method /\ handlerCalls[i].handler = handler})

\* the registered handlers
Registered == Range(tickManager.tickHandlers)

\* C25: no OnTick is called after an OnShutdown; when the shutdown hooks
\* start every tick begun has called OnTick of every handler; no handler's
\* OnShutdown is called twice, and when Start has returned after a shutdown
\* signal it has been called once on every registered handler
C25_ShutdownAfterCompleteTick ==
    /\ \A i, j \in 1..Len(handlerCalls) :
          (i < j /\ handlerCalls[i].method = "OnShutdown") => handlerCalls[j].method = "OnShutdown"
    /\ \A h \in Registered : CallCount("OnShutdown", h) <= 1
    /\ tickManager.state \in {"shutdown", "returned"} =>
          \A h \in Registered : CallCount("OnTick", h) = currentTick
    /\ tickManager.state = "returned" =>
          \A h \in Registered : CallCount("OnShutdown", h) = 1

\* the signal came while a tick was calling its handlers, and Start has
\* returned after the hooks of two handlers
C25_Witness ==
    /\ tickManager.state = "returned"
    /\ tickManager.signalledIn = "tick"
    /\ Len(tickManager.tickHandlers) = 2
    /\ \E i \in 1..Len(handlerCalls) : handlerCalls[i].method = "OnTick"

\* C29: a message that Decode or ValidateMessage rejects does not end the
\* session: the step that reads it leaves the client, its goroutines, its read
\* deadline and the engine as they were, and the reader is still reading
C29_BadMessageKeepsSession ==
    [][\A id \in Clients, k \in {"garbage", "invalid"} :
          (messagesRead' # messagesRead /\ found' = <<ReadMessage(id, k)>>)
          => /\ gatewayClients' = gatewayClients
             /\ pumps' = pumps
             /\ gateway' = gateway
             /\ UNCHANGED <<entities, clientMap, nextEntityID, quadtree, subscribers,
                            movementBuffer>>
             /\ Reading(id)']_vars

\* a client with an entity and a buffered intent has sent a message that is
\* not valid and is still being read
C29_Witness ==
    \E id \in Clients :
        /\ found = <<ReadMessage(id, "invalid")>>
        /\ Reading(id)
        /\ gatewayClients[id].entityID # 0
        /\ Has(entities, gatewayClients[id].entityID)
        /\ Has(movementBuffer, gatewayClients[id].entityID)

\* C30: the step in which the reader is given a Heartbeat of a client sets
\* the read deadline of that client to the full PongWait again
C30_HeartbeatResetsDeadline ==
    [][\A id \in Clients :
          (messagesRead' # messagesRead /\ found' = <<ReadMessage(id, "heartbeat")>>)
          => pumps'[id].deadline = PongWait]_vars

\* the session has ended: its reader has left its loop, its read deadline has
\* passed or the gateway has been shut down
SessionEnded(id) ==
    /\ Has(pumps, id)
    /\ \/ pumps[id].readPump # "running"
       \/ pumps[id].deadline = 0
       \/ gateway.shutdown

\* the entities of the store that were spawned for the session
EntitiesOf(id) == {e \in DOMAIN entities : entities[e].ClientID = id}

\* the session is out of g.clients, its sendChan is closed and it has no entity
SessionGone(id) ==
    /\ ~Has(gatewayClients, id)
    /\ pumps[id].closed
    /\ EntitiesOf(id) = {}

\* C24: a session that has ended is removed in the end: once the process has
\* stopped and no goroutine takes another step, every ended session is out of
\* g.clients, its sendChan is closed and its entity is out of the store
C24_EndedSessionRemoved ==
    \A id \in DOMAIN pumps : (gateway.panicked /\ SessionEnded(id)) => SessionGone(id)

\* C21: no session owns more than one live entity
C21_OneEntityPerSession ==
    \A id \in Clients : Cardinality(EntitiesOf(id)) <= 1

\* C31: in the integration phase of a tick the position of an entity advances
\* by its velocity after friction, that is by 0.95 times the velocity the
\* intents left, where that position is inside the world
C31_PositionAdvancesAfterFriction ==
    [][(pc = "positions" /\ pc' # "positions")
       => \A id \in DOMAIN entities :
             LET ent == entities[id]
                 newX == ent.Position.X + Friction(ent.Velocity.X)
                 newY == ent.Position.Y + Friction(ent.Velocity.Y)
             IN  (Has(entities', id) /\ isPositionValid(newX, newY))
                 => entities'[id].Position = Vec(newX, newY)]_vars

RECURSIVE DeepestDepth(_)
\* the greatest depth of a node of the tree
DeepestDepth(qt) ==
    IF qt.divided
    THEN LET d == {DeepestDepth(qt.children[k]) : k \in 1..4}
         IN  CHOOSE m \in d : \A n \in d : n <= m
    ELSE qt.depth

RECURSIVE DividedPaths(_)
\* the divided nodes of the tree, each as the way down to it: child after child
DividedPaths(qt) ==
    IF qt.divided
    THEN {<<>>} \cup UNION {{<<k>> \o p : p \in DividedPaths(qt.children[k])} : k \in 1..4}
    ELSE {}

RECURSIVE HasNode(_, _)
HasNode(qt, path) ==
    path = <<>> \/ (qt.divided /\ HasNode(qt.children[Head(path)], Tail(path)))

RECURSIVE NodeAt(_, _)
NodeAt(qt, path) ==
    IF path = <<>> THEN qt ELSE NodeAt(qt.children[Head(path)], Tail(path))

\* C32: no node of the index lies deeper than QuadtreeDepth; a node becomes
\* divided only in an Insert, below the maximum depth, when it held
\* QuadtreeCapacity entities already (a node made and divided in the same
\* Insert holds them and the new one below it); a divided node stays divided
C32_DivisionBounded ==
    [][/\ DeepestDepth(quadtree') <= QuadtreeDepth
       /\ DividedPaths(quadtree) \subseteq DividedPaths(quadtree')
       /\ \A path \in DividedPaths(quadtree') \ DividedPaths(quadtree) :
             /\ found'[1].op = "Insert"
             /\ NodeAt(quadtree', path).depth < QuadtreeDepth
             /\ IF HasNode(quadtree, path)
                THEN Len(NodeAt(quadtree, path).entities) >= QuadtreeCapacity
                ELSE Cardinality(StoredIds(NodeAt(quadtree', path)))
                        >= QuadtreeCapacity + 1]_vars

\* an entity was removed, and a node at the maximum depth, below divided
\* nodes only, still holds QuadtreeCapacity entities
C32_Witness ==
    /\ found # <<>>
    /\ found[1].op = "Remove"
    /\ found[1].ok
    /\ \E path \in DividedPaths(quadtree), k \in 1..4 :
          /\ Len(path) = QuadtreeDepth - 1
          /\ Len(NodeAt(quadtree, path).children[k].entities) >= QuadtreeCapacity

RECURSIVE AllNodes(_)
\* the nodes of the tree
AllNodes(qt) ==
    {qt} \cup (IF qt.divided THEN UNION {AllNodes(qt.children[k]) : k \in 1..4} ELSE {})

\* C33: after a tick every live entity that a node of the index stores has
\* its position inside the boundary of that node
C33_StoredWithinNodeBoundary ==
    (pc = "idle" /\ currentTick > 0)
    => \A node \in AllNodes(quadtree) :
          \A i \in 1..Len(node.entities) :
             Has(entities, node.entities[i])
             => Contains(node.bounds, entities[node.entities[i]].Position)

\* the ids a query of the whole world rectangle returns
WholeWorld(qt, ents) == Range(QueryBounds(qt, NewQuadtreeFromConfig.bounds, Positions(ents)))

\* C34: Remove of a stored entity returns true and takes exactly that entity
\* out of the tree: a query of the whole world then returns the other stored
\* entities and not the removed one; Remove of an id that is not stored
\* returns false and leaves the tree as it is
C34_RemoveExactlyOne ==
    [][\A id \in 1..(MaxIds + 1) :
          found' = <<Found("Remove", Vec(0, 0), 0, found'[1].ok, <<id>>)>>
          => IF id \in StoredIds(quadtree)
             THEN /\ found'[1].ok
                  /\ StoredIds(quadtree') = StoredIds(quadtree) \ {id}
                  /\ WholeWorld(quadtree', entities') = WholeWorld(quadtree, entities) \ {id}
                  /\ id \in WholeWorld(quadtree, entities)
             ELSE /\ ~found'[1].ok
                  /\ quadtree' = quadtree]_vars

\* an entity was removed from a divided tree that still stores another one
C34_Witness ==
    /\ found # <<>>
    /\ found[1].op = "Remove"
    /\ found[1].ok
    /\ quadtree.divided
    /\ WholeWorld(quadtree, entities) # {}

\* C35: when an entity is destroyed, every observer that has it in its AOI
\* memory is sent a Despawn for it in the step that takes it out of the memory
C35_DespawnOnDestroy ==
    [][\A e \in DOMAIN entities :
          ~Has(entities', e)
          => \A o \in DOMAIN subscribers \ {e} :
                (e \in subscribers[o] /\ Has(entities, o))
                => \E k \in 1..Len(outbox') :
                      /\ outbox'[k].Type = "DESPAWN"
                      /\ outbox'[k].EntityId = e
                      /\ outbox'[k].ClientID = entities[o].ClientID]_vars

\* RemoveEntity(id) called in the present state
RemoveEntityNow(id) ==
    RemoveEntityResult(Store(entities, clientMap, nextEntityID), quadtree, subscribers,
                       movementBuffer, id)

C37_NoSendOnClosedQueue ==
    [][\A id \in Clients :
          (/\ found' # <<>>
           /\ found'[1].op = "BroadcastToClient"
           /\ found'[1].to = {id}
           /\ gateway' # gateway \/ gatewayClients' # gatewayClients \/ found' # found)
          => ~gatewayClients[id].sendChan.closed]_vars

\* Client.Close is called for the session in this step: by the deferred call
\* of its writePump, by the deferred function of its readPump, or by Shutdown
CloseCalled(id) ==
    \/ pumps[id].writePump = "running" /\ pumps'[id].writePump \in {"done", "panicked"}
    \/ pumps[id].readPump = "returning" /\ pumps'[id].readPump \in {"done", "panicked"}
    \/ ~gateway.shutdown /\ gateway'.shutdown /\ Has(gatewayClients, id)

\* C38: Client.Close takes effect at most once for a client: no call of it,
\* from the reader's exit, the writer's exit or Shutdown, meets a client whose
\* closeChan and sendChan are closed already
C38_CloseAtMostOnce ==
    [][\A id \in DOMAIN pumps : CloseCalled(id) => ~pumps[id].closed]_vars

\* EntityManager.GetEntityByClient: the entity the session index names for the
\* session, if the index has an entry and the entity is in em.entities
GetEntityByClient(em, clientID) ==
    IF Has(em.clientMap, clientID) /\ Has(em.entities, em.clientMap[clientID])
    THEN {em.entities[em.clientMap[clientID]]}
    ELSE {}

\* C39: the session index agrees with the entity map: for every live entity
\* with an owning session GetEntityByClient returns a live entity of that
\* session, and every entry of the index names a live entity
C39_SessionIndexConsistent ==
    LET em == Store(entities, clientMap, nextEntityID)
    IN  /\ \A id \in DOMAIN entities :
              entities[id].ClientID # NoClient
              => \E ent \in GetEntityByClient(em, entities[id].ClientID) :
                    ent.ClientID = entities[id].ClientID
        /\ \A c \in DOMAIN clientMap : Has(entities, clientMap[c])

\* the tick loop runs: Start is at its select or inside processTick
TickLoopRuns == tickManager.state \in {"select", "tick"}

\* C40: the startup of the server makes progress: after main has started the
\* engine, the gateway is started in the end and serves while the tick loop
\* still runs
C40_GatewayServesWhileTicksRun == <>(Listening /\ TickLoopRuns)

============================================================================
